---- MODULE Spec2Model ----
(***************************************************************************)
(* A model of the OpusChess engine (rust_engine/src): the board with       *)
(* make_move / unmake_move, the move generator, and the layers built on    *)
(* top of them.  Squares are 0..63 (a1 = 0, h8 = 63), piece codes are the  *)
(* u8 values of types.rs, a move is the record of board.rs::Move.          *)
(***************************************************************************)
EXTENDS Integers, Sequences, FiniteSets, TLC

(***************************************************************************)
(* Bounds of the model.                                                    *)
(***************************************************************************)
\* the deepest stack of made and not yet unmade moves that is explored
MaxPlies == 2
\* the transposition table has 2^TTBits entries
TTBits == 2
\* the evaluation functions the game is searched with: 0..MaxSeed
MaxSeed == 1
\* a stop flag set during an alphabeta call is first seen by one of that
\* call's loads 0..MaxStopAt of the flag, or by none of them
MaxStopAt == 3
\* the shared table by itself: the deepest entry stored, and how many stores
\* and probes are made between two clears
MaxTableDepth == 2
MaxTableOps == 3
\* perft is asked for depths 1..MaxPerftDepth on the positions the position
\* commands set up
MaxPerftDepth == 1
\* the plies `position ... moves` plays before a node is searched, and the
\* depth left at that node
MaxNodePlies == 8
MaxNodeDepth == 2
\* the load of the stop flag that first returns true in a call at a node that
\* is interrupted, and the depth of such a call
MaxNodeStopAt == 8
MaxInterruptedDepth == 3
\* the plies (moves and null moves) the search goes down from a root
MaxTreePlies == 3
\* the moves made on a board between reading it from a text and writing it
MaxFenPlies == 1
\* the plies two kings play to and fro before the repetition test is looked at
MaxRepetitionPlies == 8
\* a SearchEngine is asked for depths 1..MaxEngineDepth, MaxEngineSearches
\* times one after the other
MaxEngineDepth == 2
MaxEngineSearches == 2
\* the moves made from a position before it is evaluated
MaxEvaluatePlies == 1
\* the pieces put on the board beside the two kings
MaxExtraPieces == 2

(***************************************************************************)
(* types.rs                                                                *)
(***************************************************************************)
EMPTY == 0
PAWN == 1
KNIGHT == 2
BISHOP == 3
ROOK == 4
QUEEN == 5
KING == 6
WHITE == 8
BLACK == 16
WHITE_PAWN == WHITE + PAWN
WHITE_KNIGHT == WHITE + KNIGHT
WHITE_BISHOP == WHITE + BISHOP
WHITE_ROOK == WHITE + ROOK
WHITE_QUEEN == WHITE + QUEEN
WHITE_KING == WHITE + KING
BLACK_PAWN == BLACK + PAWN
BLACK_KNIGHT == BLACK + KNIGHT
BLACK_BISHOP == BLACK + BISHOP
BLACK_ROOK == BLACK + ROOK
BLACK_QUEEN == BLACK + QUEEN
BLACK_KING == BLACK + KING
CASTLE_WK == 1
CASTLE_WQ == 2
CASTLE_BK == 4
CASTLE_BQ == 8

\* piece & PIECE_MASK (0b111)
get_piece_type(piece) == piece % 8
\* piece & COLOR_MASK (0b11000)
get_piece_color(piece) == ((piece \div 8) % 4) * 8

\* Option::None of a square, a piece or a move
None == -1

\* mask & bit != 0, for a one-bit mask `bit`
HasBit(mask, bit) == (mask \div bit) % 2 = 1
\* mask & !bit
ClearBit(mask, bit) == IF HasBit(mask, bit) THEN mask - bit ELSE mask
\* mask | bit
SetBit(mask, bit) == IF HasBit(mask, bit) THEN mask ELSE mask + bit

\* wrapping u16 and i8 arithmetic
U16(x) == x % 65536
I8(x) == ((x + 128) % 256) - 128

Abs(x) == IF x < 0 THEN -x ELSE x

fen_to_piece(c) ==
  CASE c = "P" -> WHITE_PAWN
    [] c = "N" -> WHITE_KNIGHT
    [] c = "B" -> WHITE_BISHOP
    [] c = "R" -> WHITE_ROOK
    [] c = "Q" -> WHITE_QUEEN
    [] c = "K" -> WHITE_KING
    [] c = "p" -> BLACK_PAWN
    [] c = "n" -> BLACK_KNIGHT
    [] c = "b" -> BLACK_BISHOP
    [] c = "r" -> BLACK_ROOK
    [] c = "q" -> BLACK_QUEEN
    [] c = "k" -> BLACK_KING
    [] OTHER -> None

DigitChars == <<"0", "1", "2", "3", "4", "5", "6", "7", "8", "9">>
is_ascii_digit(c) == \E i \in 1..10 : DigitChars[i] = c
to_digit(c) == (CHOOSE i \in 1..10 : DigitChars[i] = c) - 1

FileChars == <<"a", "b", "c", "d", "e", "f", "g", "h">>
RankChars == <<"1", "2", "3", "4", "5", "6", "7", "8">>

\* parse_square: a text of at least two characters, file letter then rank digit
parse_square(name) ==
  IF Len(name) < 2 THEN None
  ELSE IF ~(\E f \in 1..8 : FileChars[f] = name[1]) THEN None
  ELSE IF ~(\E r \in 1..8 : RankChars[r] = name[2]) THEN None
  ELSE LET file == (CHOOSE f \in 1..8 : FileChars[f] = name[1]) - 1
           rank == (CHOOSE r \in 1..8 : RankChars[r] = name[2]) - 1
       IN rank * 8 + file

(***************************************************************************)
(* board.rs: Move, UndoInfo, Board                                         *)
(***************************************************************************)
MoveNew(from_sq, to_sq) ==
  [from_sq |-> from_sq, to_sq |-> to_sq, promotion |-> 0,
   is_castling |-> FALSE, is_en_passant |-> FALSE]
MoveWithPromotion(from_sq, to_sq, promotion) ==
  [from_sq |-> from_sq, to_sq |-> to_sq, promotion |-> promotion,
   is_castling |-> FALSE, is_en_passant |-> FALSE]
MoveCastling(from_sq, to_sq) ==
  [from_sq |-> from_sq, to_sq |-> to_sq, promotion |-> 0,
   is_castling |-> TRUE, is_en_passant |-> FALSE]
MoveEnPassant(from_sq, to_sq) ==
  [from_sq |-> from_sq, to_sq |-> to_sq, promotion |-> 0,
   is_castling |-> FALSE, is_en_passant |-> TRUE]

\* compute_hash: std's DefaultHasher over squares, white_to_move,
\* castling_rights and en_passant_square.  The 64-bit digest is modelled by
\* the hashed tuple itself: equal inputs give equal hashes, and no two
\* different inputs collide.
compute_hash(b) ==
  <<b.squares, b.white_to_move, b.castling_rights, b.en_passant_square>>

\* a decimal text as a u16, or `default` when parse::<u16>() fails
RECURSIVE DecimalValue(_, _)
DecimalValue(text, acc) ==
  IF text = <<>> THEN acc
  ELSE DecimalValue(Tail(text), acc * 10 + to_digit(Head(text)))
ParseU16(text, default) ==
  IF text = <<>> \/ \E i \in 1..Len(text) : ~is_ascii_digit(text[i]) THEN default
  ELSE IF DecimalValue(text, 0) > 65535 THEN default
  ELSE DecimalValue(text, 0)

\* the placement loop of from_fen: st = [rank, file, squares], both i8
RECURSIVE ParsePlacement(_, _)
ParsePlacement(text, st) ==
  IF text = <<>> THEN st.squares
  ELSE LET c == Head(text) IN
    IF c = "/" THEN
      ParsePlacement(Tail(text), [st EXCEPT !.rank = I8(st.rank - 1), !.file = 0])
    ELSE IF is_ascii_digit(c) THEN
      ParsePlacement(Tail(text), [st EXCEPT !.file = I8(st.file + to_digit(c))])
    ELSE IF fen_to_piece(c) # None THEN
      LET sq == I8(st.rank * 8 + st.file)
          sqs == IF sq >= 0 /\ sq < 64
                 THEN [st.squares EXCEPT ![sq] = fen_to_piece(c)]
                 ELSE st.squares
      IN ParsePlacement(Tail(text), [st EXCEPT !.file = I8(st.file + 1), !.squares = sqs])
    ELSE ParsePlacement(Tail(text), st)

RECURSIVE ParseCastling(_, _)
ParseCastling(text, rights) ==
  IF text = <<>> THEN rights
  ELSE LET c == Head(text)
           r == CASE c = "K" -> SetBit(rights, CASTLE_WK)
                  [] c = "Q" -> SetBit(rights, CASTLE_WQ)
                  [] c = "k" -> SetBit(rights, CASTLE_BK)
                  [] c = "q" -> SetBit(rights, CASTLE_BQ)
                  [] OTHER -> rights
       IN ParseCastling(Tail(text), r)

\* Board::from_fen on the whitespace-separated fields of the text, each field
\* a sequence of characters; None when there is no field at all.
from_fen(parts) ==
  IF parts = <<>> THEN None
  ELSE
    LET squares == ParsePlacement(parts[1],
                     [rank |-> 7, file |-> 0, squares |-> [sq \in 0..63 |-> EMPTY]])
        wtm == IF Len(parts) > 1 THEN parts[2] # <<"b">> ELSE TRUE
        rights == IF Len(parts) > 2 /\ parts[3] # <<"-">>
                  THEN ParseCastling(parts[3], 0) ELSE 0
        ep == IF Len(parts) > 3 /\ parts[4] # <<"-">> /\ parse_square(parts[4]) # None
              THEN parse_square(parts[4]) ELSE -1
        half == IF Len(parts) > 4 THEN ParseU16(parts[5], 0) ELSE 0
        full == IF Len(parts) > 5 THEN ParseU16(parts[6], 1) ELSE 1
        b0 == [squares |-> squares, white_to_move |-> wtm, castling_rights |-> rights,
               en_passant_square |-> ep, halfmove_clock |-> half,
               fullmove_number |-> full, position_history |-> <<>>]
    IN [b0 EXCEPT !.position_history = <<compute_hash(b0)>>]

\* the rook relocation of a castling move, keyed by the king's destination:
\* <<rook origin, rook destination, rook piece>>, or <<>> for `_ => {}`
CastlingRook(to_sq) ==
  CASE to_sq = 6 -> <<7, 5, WHITE_ROOK>>
    [] to_sq = 2 -> <<0, 3, WHITE_ROOK>>
    [] to_sq = 62 -> <<63, 61, BLACK_ROOK>>
    [] to_sq = 58 -> <<56, 59, BLACK_ROOK>>
    [] OTHER -> <<>>

\* the castling-rights update with the king's branch granting its side's
\* rights instead of clearing them
UpdateCastlingRights_KingGrants(rights, piece_type, white_to_move, from_sq, to_sq) ==
  LET r0 == IF piece_type = KING
            THEN IF white_to_move
                 THEN SetBit(SetBit(rights, CASTLE_WK), CASTLE_WQ)
                 ELSE SetBit(SetBit(rights, CASTLE_BK), CASTLE_BQ)
            ELSE rights
      r1 == IF from_sq = 0 \/ to_sq = 0 THEN ClearBit(r0, CASTLE_WQ) ELSE r0
      r2 == IF from_sq = 7 \/ to_sq = 7 THEN ClearBit(r1, CASTLE_WK) ELSE r1
      r3 == IF from_sq = 56 \/ to_sq = 56 THEN ClearBit(r2, CASTLE_BQ) ELSE r2
      r4 == IF from_sq = 63 \/ to_sq = 63 THEN ClearBit(r3, CASTLE_BK) ELSE r3
  IN r4

\* the castling-rights update of make_move (board.rs 351-364)
UpdateCastlingRights(rights, piece_type, white_to_move, from_sq, to_sq) ==
  LET r0 == IF piece_type = KING
            THEN IF white_to_move
                 THEN ClearBit(ClearBit(rights, CASTLE_WK), CASTLE_WQ)
                 ELSE ClearBit(ClearBit(rights, CASTLE_BK), CASTLE_BQ)
            ELSE rights
      r1 == IF from_sq = 0 \/ to_sq = 0 THEN ClearBit(r0, CASTLE_WQ) ELSE r0
      r2 == IF from_sq = 7 \/ to_sq = 7 THEN ClearBit(r1, CASTLE_WK) ELSE r1
      r3 == IF from_sq = 56 \/ to_sq = 56 THEN ClearBit(r2, CASTLE_BQ) ELSE r2
      r4 == IF from_sq = 63 \/ to_sq = 63 THEN ClearBit(r3, CASTLE_BK) ELSE r3
  IN r4

\* the en-passant update of make_move (board.rs 366-373)
UpdateEnPassant(piece_type, from_sq, to_sq) ==
  IF piece_type = PAWN /\ Abs(to_sq - from_sq) = 16
  THEN (from_sq + to_sq) \div 2
  ELSE -1

\* the history update writing over the last entry instead of pushing
PushHistory_Overwrite(b) ==
  [b EXCEPT !.position_history =
     IF b.position_history = <<>> THEN <<compute_hash(b)>>
     ELSE [b.position_history EXCEPT ![Len(b.position_history)] = compute_hash(b)]]

\* the history update of make_move (board.rs 383-384)
PushHistory(b) ==
  [b EXCEPT !.position_history = Append(b.position_history, compute_hash(b))]

\* Board::make_move: the board after the move and the UndoInfo it returns
make_move(b, mv) ==
  LET from_sq == mv.from_sq
      to_sq == mv.to_sq
      piece == b.squares[from_sq]
      captured == b.squares[to_sq]
      undo == [captured_piece |-> IF mv.is_en_passant
                                  THEN (IF b.white_to_move THEN BLACK_PAWN ELSE WHITE_PAWN)
                                  ELSE captured,
               castling_rights |-> b.castling_rights,
               en_passant_square |-> b.en_passant_square,
               halfmove_clock |-> b.halfmove_clock,
               moved_piece |-> piece]
      piece_type == get_piece_type(piece)
      clock == IF piece_type = PAWN \/ captured # EMPTY
               THEN 0 ELSE U16(b.halfmove_clock + 1)
      \* en passant: remove the pawn behind the destination
      s1 == IF mv.is_en_passant
            THEN [b.squares EXCEPT ![IF b.white_to_move THEN to_sq - 8 ELSE to_sq + 8] = EMPTY]
            ELSE b.squares
      \* castling: move the rook
      rk == CastlingRook(to_sq)
      s2 == IF mv.is_castling /\ rk # <<>>
            THEN [s1 EXCEPT ![rk[1]] = EMPTY, ![rk[2]] = rk[3]]
            ELSE s1
      \* move the piece
      s3 == [[s2 EXCEPT ![to_sq] = piece] EXCEPT ![from_sq] = EMPTY]
      \* promotion
      s4 == IF mv.promotion # 0
            THEN [s3 EXCEPT ![to_sq] = (IF b.white_to_move THEN WHITE ELSE BLACK) + mv.promotion]
            ELSE s3
      b1 == [squares |-> s4,
             white_to_move |-> ~b.white_to_move,
             castling_rights |-> UpdateCastlingRights(b.castling_rights, piece_type,
                                                      b.white_to_move, from_sq, to_sq),
             en_passant_square |-> UpdateEnPassant(piece_type, from_sq, to_sq),
             halfmove_clock |-> clock,
             fullmove_number |-> IF ~b.white_to_move THEN U16(b.fullmove_number + 1)
                                 ELSE b.fullmove_number,
             position_history |-> b.position_history]
  IN [board |-> PushHistory(b1), undo |-> undo]

\* the history update of unmake_move (board.rs 445-446): Vec::pop
PopHistory(history) ==
  IF history = <<>> THEN history ELSE SubSeq(history, 1, Len(history) - 1)

\* Board::unmake_move
unmake_move(b, mv, undo) ==
  LET wtm == ~b.white_to_move
      from_sq == mv.from_sq
      to_sq == mv.to_sq
      s1 == [b.squares EXCEPT ![from_sq] = undo.moved_piece]
      s2 == IF mv.is_en_passant
            THEN [[s1 EXCEPT ![to_sq] = EMPTY]
                      EXCEPT ![IF wtm THEN to_sq - 8 ELSE to_sq + 8] =
                               IF wtm THEN BLACK_PAWN ELSE WHITE_PAWN]
            ELSE [s1 EXCEPT ![to_sq] = undo.captured_piece]
      rk == CastlingRook(to_sq)
      s3 == IF mv.is_castling /\ rk # <<>>
            THEN [s2 EXCEPT ![rk[2]] = EMPTY, ![rk[1]] = rk[3]]
            ELSE s2
  IN [squares |-> s3,
      white_to_move |-> wtm,
      castling_rights |-> undo.castling_rights,
      en_passant_square |-> undo.en_passant_square,
      halfmove_clock |-> undo.halfmove_clock,
      fullmove_number |-> IF ~wtm THEN U16(b.fullmove_number - 1) ELSE b.fullmove_number,
      position_history |-> PopHistory(b.position_history)]

\* Board::find_king: the lowest square holding that king, or None
find_king(b, white) ==
  LET king == IF white THEN WHITE_KING ELSE BLACK_KING
      at == {sq \in 0..63 : b.squares[sq] = king}
  IN IF at = {} THEN None ELSE CHOOSE sq \in at : \A t \in at : sq <= t

(***************************************************************************)
(* move_generator.rs                                                       *)
(***************************************************************************)
ROOK_DIRECTIONS == <<8, -8, -1, 1>>
BISHOP_DIRECTIONS == <<7, 9, -7, -9>>
QUEEN_DIRECTIONS == <<8, -8, -1, 1, 7, 9, -7, -9>>
KING_DIRECTIONS == <<8, -8, -1, 1, 7, 9, -7, -9>>
KNIGHT_OFFSETS == <<17, 15, 10, 6, -6, -10, -15, -17>>
PromotionPieces == <<QUEEN, ROOK, BISHOP, KNIGHT>>

OnBoard(sq) == sq >= 0 /\ sq < 64

\* the concatenation of f[1], ..., f[n] for a sequence f of sequences
RECURSIVE Flatten(_)
Flatten(seqs) ==
  IF seqs = <<>> THEN <<>>
  ELSE IF Len(seqs) = 1 THEN seqs[1]
  ELSE Flatten(SubSeq(seqs, 1, Len(seqs) \div 2))
       \o Flatten(SubSeq(seqs, (Len(seqs) \div 2) + 1, Len(seqs)))

PromotionMoves(sq, to_sq) ==
  [i \in 1..4 |-> MoveWithPromotion(sq, to_sq, PromotionPieces[i])]

\* the moves one capture offset of generate_pawn_moves adds
PawnCaptureMoves(b, sq, offset, color, promo_rank) ==
  LET to_sq == sq + offset IN
  IF ~OnBoard(to_sq) THEN <<>>
  ELSE IF Abs((to_sq % 8) - (sq % 8)) # 1 THEN <<>>
  ELSE
    LET target == b.squares[to_sq]
        regular == IF target # EMPTY /\ get_piece_color(target) # color
                   THEN IF to_sq \div 8 = promo_rank
                        THEN PromotionMoves(sq, to_sq)
                        ELSE <<MoveNew(sq, to_sq)>>
                   ELSE <<>>
        ep == IF b.en_passant_square >= 0 /\ to_sq = b.en_passant_square
              THEN <<MoveEnPassant(sq, to_sq)>>
              ELSE <<>>
    IN regular \o ep

generate_pawn_moves(b, sq) ==
  LET color == get_piece_color(b.squares[sq])
      is_white_pawn == color = WHITE
      direction == IF is_white_pawn THEN 8 ELSE -8
      start_rank == IF is_white_pawn THEN 1 ELSE 6
      promo_rank == IF is_white_pawn THEN 7 ELSE 0
      rank == sq \div 8
      to_sq == sq + direction
      to_sq2 == sq + 2 * direction
      pushes ==
        IF OnBoard(to_sq) /\ b.squares[to_sq] = EMPTY
        THEN IF to_sq \div 8 = promo_rank
             THEN PromotionMoves(sq, to_sq)
             ELSE <<MoveNew(sq, to_sq)>> \o
                  (IF rank = start_rank /\ OnBoard(to_sq2) /\ b.squares[to_sq2] = EMPTY
                   THEN <<MoveNew(sq, to_sq2)>> ELSE <<>>)
        ELSE <<>>
  IN pushes \o PawnCaptureMoves(b, sq, direction - 1, color, promo_rank)
            \o PawnCaptureMoves(b, sq, direction + 1, color, promo_rank)

\* one knight offset: the wrap test accepts a step of at most 2 files and 2 ranks
KnightTarget(sq, offset) ==
  LET to_sq == sq + offset IN
  OnBoard(to_sq) /\ Abs((to_sq % 8) - (sq % 8)) <= 2
                 /\ Abs((to_sq \div 8) - (sq \div 8)) <= 2

generate_knight_moves(b, sq) ==
  LET color == get_piece_color(b.squares[sq]) IN
  Flatten([i \in 1..8 |->
    LET to_sq == sq + KNIGHT_OFFSETS[i] IN
    IF KnightTarget(sq, KNIGHT_OFFSETS[i])
       /\ (b.squares[to_sq] = EMPTY \/ get_piece_color(b.squares[to_sq]) # color)
    THEN <<MoveNew(sq, to_sq)>> ELSE <<>>])

\* the wrap test of a ray step from current_sq to current_sq + direction
RayStepOk(current_sq, direction) ==
  LET next_sq == current_sq + direction
      current_file == current_sq % 8
      next_file == next_sq % 8
  IN /\ OnBoard(next_sq)
     /\ IF direction = -1 \/ direction = 1 THEN Abs(next_file - current_file) = 1
        ELSE IF direction = 7 \/ direction = -9 THEN next_file = current_file - 1
        ELSE IF direction = 9 \/ direction = -7 THEN next_file = current_file + 1
        ELSE TRUE

RECURSIVE SlideRay(_, _, _, _, _)
SlideRay(b, sq, color, direction, current_sq) ==
  IF ~RayStepOk(current_sq, direction) THEN <<>>
  ELSE LET next_sq == current_sq + direction
           target == b.squares[next_sq]
       IN IF target = EMPTY
          THEN <<MoveNew(sq, next_sq)>> \o SlideRay(b, sq, color, direction, next_sq)
          ELSE IF get_piece_color(target) # color THEN <<MoveNew(sq, next_sq)>>
          ELSE <<>>

generate_sliding_moves(b, sq, directions) ==
  LET color == get_piece_color(b.squares[sq]) IN
  Flatten([i \in 1..Len(directions) |-> SlideRay(b, sq, color, directions[i], sq)])

\* check_sliding_attack: the first piece met along the ray is an attacker
RECURSIVE check_sliding_attack(_, _, _, _, _)
check_sliding_attack(b, sq, direction, attacker_color, piece_types) ==
  IF ~RayStepOk(sq, direction) THEN FALSE
  ELSE LET piece == b.squares[sq + direction] IN
       IF piece # EMPTY
       THEN get_piece_color(piece) = attacker_color /\ get_piece_type(piece) \in piece_types
       ELSE check_sliding_attack(b, sq + direction, direction, attacker_color, piece_types)

\* is_square_attacked with the pawn test looking on the wrong side of the
\* square (pawn_direction with the opposite sign)
is_square_attacked_PawnsBackward(b, sq, by_white) ==
  LET attacker_color == IF by_white THEN WHITE ELSE BLACK
      file == sq % 8
      rank == sq \div 8
      pawn_direction == IF by_white THEN 8 ELSE -8
      Holds(at, ptype) == b.squares[at] # EMPTY /\ get_piece_type(b.squares[at]) = ptype
                          /\ get_piece_color(b.squares[at]) = attacker_color
  IN \/ \E at \in {sq + pawn_direction - 1, sq + pawn_direction + 1} :
          OnBoard(at) /\ Abs((at % 8) - file) = 1 /\ Holds(at, PAWN)
     \/ \E i \in 1..8 :
          KnightTarget(sq, KNIGHT_OFFSETS[i]) /\ Holds(sq + KNIGHT_OFFSETS[i], KNIGHT)
     \/ \E i \in 1..8 :
          LET at == sq + KING_DIRECTIONS[i] IN
          OnBoard(at) /\ Abs((at % 8) - file) <= 1 /\ Holds(at, KING)
     \/ \E i \in 1..4 :
          check_sliding_attack(b, sq, ROOK_DIRECTIONS[i], attacker_color, {ROOK, QUEEN})
     \/ \E i \in 1..4 :
          check_sliding_attack(b, sq, BISHOP_DIRECTIONS[i], attacker_color, {BISHOP, QUEEN})

\* MoveGenerator::is_square_attacked
is_square_attacked(b, sq, by_white) ==
  LET attacker_color == IF by_white THEN WHITE ELSE BLACK
      file == sq % 8
      rank == sq \div 8
      pawn_direction == IF by_white THEN -8 ELSE 8
      Holds(at, ptype) == b.squares[at] # EMPTY /\ get_piece_type(b.squares[at]) = ptype
                          /\ get_piece_color(b.squares[at]) = attacker_color
  IN \/ \E at \in {sq + pawn_direction - 1, sq + pawn_direction + 1} :
          OnBoard(at) /\ Abs((at % 8) - file) = 1 /\ Holds(at, PAWN)
     \/ \E i \in 1..8 :
          KnightTarget(sq, KNIGHT_OFFSETS[i]) /\ Holds(sq + KNIGHT_OFFSETS[i], KNIGHT)
     \/ \E i \in 1..8 :
          LET at == sq + KING_DIRECTIONS[i] IN
          OnBoard(at) /\ Abs((at % 8) - file) <= 1 /\ Holds(at, KING)
     \/ \E i \in 1..4 :
          check_sliding_attack(b, sq, ROOK_DIRECTIONS[i], attacker_color, {ROOK, QUEEN})
     \/ \E i \in 1..4 :
          check_sliding_attack(b, sq, BISHOP_DIRECTIONS[i], attacker_color, {BISHOP, QUEEN})

\* the castling part of generate_king_moves (move_generator.rs 235-283)
CastlingMoves(b, sq, is_white_king) ==
  IF is_square_attacked(b, sq, ~is_white_king) THEN <<>>
  ELSE IF is_white_king THEN
    (IF HasBit(b.castling_rights, CASTLE_WK)
        /\ b.squares[5] = EMPTY /\ b.squares[6] = EMPTY
        /\ ~is_square_attacked(b, 5, FALSE) /\ ~is_square_attacked(b, 6, FALSE)
     THEN <<MoveCastling(sq, 6)>> ELSE <<>>)
    \o
    (IF HasBit(b.castling_rights, CASTLE_WQ)
        /\ b.squares[1] = EMPTY /\ b.squares[2] = EMPTY /\ b.squares[3] = EMPTY
        /\ ~is_square_attacked(b, 2, FALSE) /\ ~is_square_attacked(b, 3, FALSE)
     THEN <<MoveCastling(sq, 2)>> ELSE <<>>)
  ELSE
    (IF HasBit(b.castling_rights, CASTLE_BK)
        /\ b.squares[61] = EMPTY /\ b.squares[62] = EMPTY
        /\ ~is_square_attacked(b, 61, TRUE) /\ ~is_square_attacked(b, 62, TRUE)
     THEN <<MoveCastling(sq, 62)>> ELSE <<>>)
    \o
    (IF HasBit(b.castling_rights, CASTLE_BQ)
        /\ b.squares[57] = EMPTY /\ b.squares[58] = EMPTY /\ b.squares[59] = EMPTY
        /\ ~is_square_attacked(b, 58, TRUE) /\ ~is_square_attacked(b, 59, TRUE)
     THEN <<MoveCastling(sq, 58)>> ELSE <<>>)

generate_king_moves(b, sq) ==
  LET color == get_piece_color(b.squares[sq])
      file == sq % 8
      normal == Flatten([i \in 1..8 |->
        LET to_sq == sq + KING_DIRECTIONS[i] IN
        IF OnBoard(to_sq) /\ Abs((to_sq % 8) - file) <= 1
           /\ (b.squares[to_sq] = EMPTY \/ get_piece_color(b.squares[to_sq]) # color)
        THEN <<MoveNew(sq, to_sq)>> ELSE <<>>])
  IN normal \o CastlingMoves(b, sq, color = WHITE)

\* the moves of the piece on sq, as the match of generate_pseudo_legal_moves
PieceMoves(b, sq) ==
  LET piece == b.squares[sq]
      color == IF b.white_to_move THEN WHITE ELSE BLACK
      piece_type == get_piece_type(piece)
  IN IF piece = EMPTY \/ get_piece_color(piece) # color THEN <<>>
     ELSE CASE piece_type = PAWN -> generate_pawn_moves(b, sq)
            [] piece_type = KNIGHT -> generate_knight_moves(b, sq)
            [] piece_type = BISHOP -> generate_sliding_moves(b, sq, BISHOP_DIRECTIONS)
            [] piece_type = ROOK -> generate_sliding_moves(b, sq, ROOK_DIRECTIONS)
            [] piece_type = QUEEN -> generate_sliding_moves(b, sq, QUEEN_DIRECTIONS)
            [] piece_type = KING -> generate_king_moves(b, sq)
            [] OTHER -> <<>>

generate_pseudo_legal_moves(b) ==
  Flatten([i \in 1..64 |-> PieceMoves(b, i - 1)])

\* MoveGenerator::is_legal: make the move on a clone, test the mover's king
\* a filter that lets every pseudo-legal move through
is_legal_Always(b, mv) == TRUE

is_legal(b, mv) ==
  LET temp_board == make_move(b, mv).board
      king_sq == find_king(temp_board, ~temp_board.white_to_move)
      in_check == IF king_sq # None
                  THEN is_square_attacked(temp_board, king_sq, temp_board.white_to_move)
                  ELSE TRUE
  IN ~in_check

\* the elements of s that satisfy Keep, in order
SelectLegal(b, moves) == SelectSeq(moves, LAMBDA mv : is_legal(b, mv))

generate_legal_moves(b) == SelectLegal(b, generate_pseudo_legal_moves(b))

is_in_check(b) ==
  LET king_sq == find_king(b, b.white_to_move) IN
  IF king_sq # None THEN is_square_attacked(b, king_sq, ~b.white_to_move) ELSE FALSE

(***************************************************************************)
(* The game the search runs on.                                            *)
(*                                                                         *)
(* parallel_search.rs sees a Board only through generate_legal_moves,      *)
(* is_in_check, make_move / unmake_move, evaluate, evaluate_move, the draw *)
(* tests and hash_position.  For the search the board is therefore a       *)
(* position of an explicit game graph: GamePositions lists, for each       *)
(* position, what those calls return on it.  An edge carries the Move, the *)
(* position make_move leads to, the piece on the move's to_sq (victim) and *)
(* the piece on its from_sq (piece).  Of the positions 0..8 the even ones   *)
(* have White to move and the odd ones Black; captures lead to positions   *)
(* no capture leads back from, and flip is the position with the same      *)
(* pieces and the other side to move (what the null move searches):        *)
(* positions 9..14 are such flips.                                         *)
(***************************************************************************)
GameEdge(mv, target, victim, piece) ==
  [mv |-> mv, target |-> target, victim |-> victim, piece |-> piece]

GamePosition(in_check, insufficient, big, flip, edges) ==
  [in_check |-> in_check, insufficient |-> insufficient, big |-> big,
   flip |-> flip, edges |-> edges]

GamePositions ==
  << \* 0: White; a pawn push, a knight capture, a knight move
     GamePosition(FALSE, FALSE, TRUE, 14,
       <<GameEdge(MoveNew(12, 28), 1, EMPTY, WHITE_PAWN),
         GameEdge(MoveNew(21, 36), 5, BLACK_PAWN, WHITE_KNIGHT),
         GameEdge(MoveNew(21, 38), 7, EMPTY, WHITE_KNIGHT)>>),
     \* 1: Black; a knight move, a pawn capture that gives check
     GamePosition(FALSE, FALSE, TRUE, 9,
       <<GameEdge(MoveNew(57, 42), 2, EMPTY, BLACK_KNIGHT),
         GameEdge(MoveNew(35, 28), 4, WHITE_PAWN, BLACK_PAWN)>>),
     \* 2: White; a knight move, a promotion
     GamePosition(FALSE, FALSE, TRUE, 10,
       <<GameEdge(MoveNew(21, 38), 3, EMPTY, WHITE_KNIGHT),
         GameEdge(MoveWithPromotion(52, 60, QUEEN), 7, EMPTY, WHITE_PAWN)>>),
     \* 3: Black; the knight goes back (to position 0), a queen capture
     GamePosition(FALSE, FALSE, TRUE, 11,
       <<GameEdge(MoveNew(42, 57), 0, EMPTY, BLACK_KNIGHT),
         GameEdge(MoveNew(59, 38), 6, WHITE_KNIGHT, BLACK_QUEEN)>>),
     \* 4: White, in check; the king steps aside or the knight takes the pawn
     GamePosition(TRUE, FALSE, TRUE, 4,
       <<GameEdge(MoveNew(4, 5), 7, EMPTY, WHITE_KING),
         GameEdge(MoveNew(21, 28), 5, BLACK_PAWN, WHITE_KNIGHT)>>),
     \* 5: Black; one quiet move, into mate
     GamePosition(FALSE, FALSE, TRUE, 12,
       <<GameEdge(MoveNew(57, 42), 6, EMPTY, BLACK_KNIGHT)>>),
     \* 6: White is checkmated
     GamePosition(TRUE, FALSE, TRUE, 6, <<>>),
     \* 7: Black; a king move into stalemate, a knight move
     GamePosition(FALSE, FALSE, TRUE, 13,
       <<GameEdge(MoveNew(60, 59), 8, EMPTY, BLACK_KING),
         GameEdge(MoveNew(57, 42), 2, EMPTY, BLACK_KNIGHT)>>),
     \* 8: White is stalemated, king against king
     GamePosition(FALSE, TRUE, FALSE, 8, <<>>),
     \* 9..14: positions 1, 2, 3, 5, 7, 0 with the other side to move
     GamePosition(FALSE, FALSE, TRUE, 1,
       <<GameEdge(MoveNew(21, 38), 3, EMPTY, WHITE_KNIGHT)>>),
     GamePosition(FALSE, FALSE, TRUE, 2,
       <<GameEdge(MoveNew(42, 57), 0, EMPTY, BLACK_KNIGHT)>>),
     GamePosition(FALSE, FALSE, TRUE, 3,
       <<GameEdge(MoveNew(12, 28), 1, EMPTY, WHITE_PAWN)>>),
     GamePosition(FALSE, FALSE, TRUE, 5,
       <<GameEdge(MoveNew(21, 38), 7, EMPTY, WHITE_KNIGHT)>>),
     GamePosition(FALSE, FALSE, TRUE, 7,
       <<GameEdge(MoveNew(21, 36), 5, EMPTY, WHITE_KNIGHT)>>),
     GamePosition(FALSE, FALSE, TRUE, 0,
       <<GameEdge(MoveNew(57, 42), 2, EMPTY, BLACK_KNIGHT)>> ) >>

GameAt(pos) == GamePositions[pos + 1]

\* Board as the search holds it: the position, the halfmove clock and the
\* position_history of compute_hash values (a position's compute_hash is
\* modelled by the position itself)
GameBoard(pos, halfmove_clock, position_history) ==
  [pos |-> pos, halfmove_clock |-> halfmove_clock, position_history |-> position_history]

\* Board::from_fen on the text of position pos with the given clock
game_from_fen(pos, halfmove_clock) == GameBoard(pos, halfmove_clock, <<pos>>)

\* MoveGenerator::generate_legal_moves and is_in_check on a game position
game_legal_moves(p) ==
  [i \in 1..Len(GameAt(p.pos).edges) |-> GameAt(p.pos).edges[i].mv]
game_in_check(p) == GameAt(p.pos).in_check

\* the edge of a legal move
GameEdgeOf(p, mv) ==
  LET edges == GameAt(p.pos).edges
  IN edges[CHOOSE i \in 1..Len(edges) : edges[i].mv = mv]

\* Board::make_move on a game position: the clock (board.rs 296-301) and the
\* history push (board.rs 383-384); unmake_move gives back the caller's board
game_make_move(p, mv) ==
  LET e == GameEdgeOf(p, mv) IN
  GameBoard(e.target,
            IF get_piece_type(e.piece) = PAWN \/ e.victim # EMPTY
            THEN 0 ELSE U16(p.halfmove_clock + 1),
            Append(p.position_history, e.target))

\* the null move of alphabeta: white_to_move is flipped and nothing else, so
\* the clock and the history stay as they are
game_null_move(p) == [p EXCEPT !.pos = GameAt(p.pos).flip]

\* a count of the earlier occurrences only
repetition_count_Earlier(b) ==
  IF b.position_history = <<>> THEN 0
  ELSE Cardinality({i \in 1..(Len(b.position_history) - 1) :
                      b.position_history[i] = b.position_history[Len(b.position_history)]})

\* Board::repetition_count, is_repetition, is_fifty_moves
repetition_count(b) ==
  IF b.position_history = <<>> THEN 1
  ELSE Cardinality({i \in 1..Len(b.position_history) :
                      b.position_history[i] = b.position_history[Len(b.position_history)]})
\* an early return that is taken for histories of up to nine entries
is_repetition_Late(b) ==
  IF Len(b.position_history) < 10 THEN FALSE ELSE repetition_count(b) >= 3
\* a test that never sees a repetition
is_repetition_Never(b) == FALSE
is_repetition(b) ==
  IF Len(b.position_history) < 5 THEN FALSE ELSE repetition_count(b) >= 3
is_fifty_moves(b) == b.halfmove_clock >= 100

game_insufficient_material(p) == GameAt(p.pos).insufficient
has_big_pieces(p) == GameAt(p.pos).big

\* ZobristHash::hash_position: a different key for every position; XOR with
\* side_key gives the key of the position with the other side to move
hash_position(p) == p.pos
XorSideKey(hash_key) == GameAt(hash_key).flip

\* evaluation.rs
PIECE_VALUES == <<0, 100, 320, 330, 500, 900, 20000>>
PieceValue(piece_type) == PIECE_VALUES[piece_type + 1]

evaluate_move(p, mv) ==
  LET e == GameEdgeOf(p, mv)
      capture == IF e.victim # EMPTY
                 THEN 10 * PieceValue(get_piece_type(e.victim))
                      - PieceValue(get_piece_type(e.piece))
                 ELSE 0
      promo == IF mv.promotion # 0 THEN PieceValue(mv.promotion) ELSE 0
  IN capture + promo

(***************************************************************************)
(* State.                                                                  *)
(*   board, undo_stack, last   a Board and its callers (see SpecBoard)     *)
(*   game_seed      which evaluation function the game has                 *)
(*   stop_search    ParallelSearchEngine::stop_search, the shared flag     *)
(*   tt             the SharedTranspositionTable                           *)
(*   engine         the other fields of ParallelSearchEngine               *)
(*   coordinator    the frame of ParallelSearchEngine::search: where the   *)
(*                  call stands, its arguments, total_nodes                *)
(*   workers        thread id -> that thread's WorkerSearch, the locals of *)
(*                  its iterative deepening and where it stands; thread 0  *)
(*                  is the main thread, whose locals are the best_move and *)
(*                  best_score of ParallelSearchEngine::search             *)
(*   uci_board      UCIProtocol::board                                     *)
(*   script         the lines the GUI writes to stdin in this session      *)
(*   arrived        how many of them have reached stdin                    *)
(*   lines_read     how many of them UCIProtocol::run has read             *)
(*   output         the bestmove lines sent, each with the position it     *)
(*                  answers                                                *)
(*   results        one record per finished search: its inputs and what it *)
(*                  returned (kept for the checks only)                    *)
(***************************************************************************)
VARIABLES board, undo_stack, last,
          game_seed, stop_search, tt, engine, coordinator, workers,
          uci_board, script, arrived, lines_read, output, results, options

boardVars == <<board, undo_stack, last>>
searchVars == <<game_seed, stop_search, tt, engine, coordinator, workers,
                uci_board, script, arrived, lines_read, output, results, options>>
vars == <<boardVars, searchVars>>

\* evaluate: the static score of a position for the side to move
evaluate(p) == (((p.pos * 7 + game_seed * (p.pos + 3)) % 11) - 5) * 35

(***************************************************************************)
(* search.rs / parallel_search.rs: constants                               *)
(***************************************************************************)
INFINITY == 100000
MATE_SCORE == 50000
MAX_DEPTH == 100
TT_EXACT == 0
TT_ALPHA == 1
TT_BETA == 2
NULL_MOVE_REDUCTION == 2
LMR_FULL_DEPTH_MOVES == 4
LMR_REDUCTION_LIMIT == 3
ASPIRATION_WINDOW == 50
FUTILITY_MARGIN == <<0, 200, 300, 500>>
CHECK_EXTENSION == 1
CONTEMPT == 25

\* Option<Move>
NoneMove == <<>>
SomeMove(mv) == <<mv>>

Max(a, b) == IF a >= b THEN a ELSE b

\* Rust evaluates a `let` once and the arguments of a call before the call.
\* Let binds a value that is computed once (as the element of a one-element
\* set) and hands it to what follows; CallN is a call by value of an
\* operator of N arguments.
Let(value, Body(_)) == CHOOSE y \in {Body(x) : x \in {value}} : TRUE
Call1(Op(_), a1) == CHOOSE y \in {Op(x1) : x1 \in {a1}} : TRUE
Call2(Op(_, _), a1, a2) ==
  CHOOSE y \in {Op(x1, x2) : x1 \in {a1}, x2 \in {a2}} : TRUE
Call3(Op(_, _, _), a1, a2, a3) ==
  CHOOSE y \in {Op(x1, x2, x3) : x1 \in {a1}, x2 \in {a2}, x3 \in {a3}} : TRUE
Call4(Op(_, _, _, _), a1, a2, a3, a4) ==
  CHOOSE y \in {Op(x1, x2, x3, x4) :
                  x1 \in {a1}, x2 \in {a2}, x3 \in {a3}, x4 \in {a4}} : TRUE
Call5(Op(_, _, _, _, _), a1, a2, a3, a4, a5) ==
  CHOOSE y \in {Op(x1, x2, x3, x4, x5) :
                  x1 \in {a1}, x2 \in {a2}, x3 \in {a3}, x4 \in {a4}, x5 \in {a5}} : TRUE
Call6(Op(_, _, _, _, _, _), a1, a2, a3, a4, a5, a6) ==
  CHOOSE y \in {Op(x1, x2, x3, x4, x5, x6) :
                  x1 \in {a1}, x2 \in {a2}, x3 \in {a3}, x4 \in {a4},
                  x5 \in {a5}, x6 \in {a6}} : TRUE
Call9(Op(_, _, _, _, _, _, _, _, _), a1, a2, a3, a4, a5, a6, a7, a8, a9) ==
  CHOOSE y \in {Op(x1, x2, x3, x4, x5, x6, x7, x8, x9) :
                  x1 \in {a1}, x2 \in {a2}, x3 \in {a3}, x4 \in {a4},
                  x5 \in {a5}, x6 \in {a6}, x7 \in {a7}, x8 \in {a8},
                  x9 \in {a9}} : TRUE

(***************************************************************************)
(* SharedTranspositionTable.  table maps an index to the entry stored      *)
(* there; an index outside its domain holds nothing.                       *)
(***************************************************************************)
\* SharedTranspositionTable::new: size is a power of two and mask = size - 1
TTSize == 2 ^ TTBits
TTIndex(hash_key) == hash_key % TTSize

TTNew == [table |-> <<>>, hits |-> 0, writes |-> 0]

\* a probe that takes whatever entry the bucket holds
TTProbe_IndexOnly(t, hash_key) ==
  LET index == TTIndex(hash_key)
  IN IF index \in DOMAIN t.table
     THEN [entry |-> <<t.table[index]>>, tt |-> [t EXCEPT !.hits = @ + 1]]
     ELSE [entry |-> <<>>, tt |-> t]

\* probe: the entry found (as an Option) and the table with hits counted
TTProbe(t, hash_key) ==
  LET index == TTIndex(hash_key)
      found == index \in DOMAIN t.table /\ t.table[index].hash_key = hash_key
  IN IF found
     THEN [entry |-> <<t.table[index]>>, tt |-> [t EXCEPT !.hits = @ + 1]]
     ELSE [entry |-> <<>>, tt |-> t]

TTStore(t, hash_key, depth, score, flag, best_move) ==
  LET index == TTIndex(hash_key)
      should_replace ==
        IF index \notin DOMAIN t.table THEN TRUE
        ELSE depth >= t.table[index].depth \/ hash_key = t.table[index].hash_key
      entry == [hash_key |-> hash_key, depth |-> depth, score |-> score,
                flag |-> flag, best_move |-> best_move]
  IN IF should_replace
     THEN [t EXCEPT !.table = [i \in DOMAIN t.table \cup {index} |->
                                 IF i = index THEN entry ELSE t.table[i]],
                    !.writes = @ + 1]
     ELSE t

\* a clear that leaves the table as it is
TTClear_Keep(t) == t

\* clear: no entries, and the counters at 0
TTClear(t) == TTNew

(***************************************************************************)
(* WorkerSearch.  The operators below take and return a search context cx: *)
(* the fields of the WorkerSearch that runs the call (nodes_searched,      *)
(* best_move, killer_moves, history, the toggles), the shared table tt as  *)
(* the call finds and leaves it, and how the call sees the stop flag:      *)
(*   loads     how many times the call has loaded stop_search so far       *)
(*   stop_at   the first load that returns true (-1: none does); the flag, *)
(*             once set, stays set until the next search begins            *)
(*   seen      a load has returned true                                    *)
(*   cut       a load at an alphabeta entry or in a move loop returned     *)
(*             true, so the call gave up part of its tree                  *)
(*   assigned  the call has written self.best_move                         *)
(*   makes_after_stop  make_move calls made after a load returned true     *)
(*   stored_cut  a node stored its result in the table after a load in its *)
(*             own move loop or below it had returned true (a node is      *)
(*             entered only while every load so far returned false, so a   *)
(*             cut found at its store was made in its own subtree)         *)
(*   unsearched  a node none of whose own loads returned true left its     *)
(*             move loop with best_score still at -INFINITY                *)
(*   unsearched_unseen  the same of a node in whose subtree no load         *)
(*             returned true                                               *)
(*   stored_none  a node stored an entry without a best move, or with the  *)
(*             score -INFINITY                                             *)
(* killer_moves and history hold the entries that have been written; every *)
(* other entry has its initial value (None, 0).                            *)
(***************************************************************************)
StopLoad(cx) == cx.stop_at >= 0 /\ cx.loads >= cx.stop_at
Loaded(cx) == [cx EXCEPT !.loads = @ + 1, !.seen = @ \/ StopLoad(cx)]

\* `if self.stop_search.load(Ordering::Relaxed) { return 0; }` (213-215)
AlphabetaEntryStop(cx) == StopLoad(cx)
\* move loops that go on whatever the flag says
MoveLoopStop_Ignored(cx) == FALSE

\* `if self.stop_search.load(Ordering::Relaxed) { break; }` in the move loops
\* of alphabeta (301-303) and quiescence (432-434)
MoveLoopStop(cx) == StopLoad(cx)

SearchResult(score, cx) == [score |-> score, cx |-> cx]

KillerAt(cx, ply, slot) ==
  IF ply \in DOMAIN cx.killer_moves THEN cx.killer_moves[ply][slot] ELSE NoneMove
HistoryAt(cx, piece, to_sq) ==
  IF <<piece, to_sq>> \in DOMAIN cx.history THEN cx.history[<<piece, to_sq>>] ELSE 0

\* the killer and history update at a beta cutoff (381-387)
KillerUpdate(cx, ply, mv, piece, extended_depth) ==
  LET key == <<piece, mv.to_sq>>
      killers == <<SomeMove(mv), KillerAt(cx, ply, 1)>>
      value == HistoryAt(cx, piece, mv.to_sq) + extended_depth * extended_depth
  IN [cx EXCEPT
        !.killer_moves = [q \in DOMAIN cx.killer_moves \cup {ply} |->
                            IF q = ply THEN killers ELSE cx.killer_moves[q]],
        !.history = [h \in DOMAIN cx.history \cup {key} |->
                       IF h = key THEN value ELSE cx.history[h]]]

\* a stable sort of <<item, score>> records by descending score
\* (Vec::sort_by with b.1.cmp(&a.1); sort_by_key with the negated score)
RECURSIVE SortByScoreDesc(_)
SortByScoreDesc(scored) ==
  IF scored = <<>> THEN <<>>
  ELSE Let(Call1(SortByScoreDesc, SubSeq(scored, 1, Len(scored) - 1)), LAMBDA rest :
         LET x == scored[Len(scored)]
             k == Cardinality({i \in 1..Len(rest) : rest[i].score >= x.score})
         IN SubSeq(rest, 1, k) \o <<x>> \o SubSeq(rest, k + 1, Len(rest)))

MovesOf(scored) == [i \in 1..Len(scored) |-> scored[i].mv]

\* WorkerSearch::order_moves
order_moves(cx, p, moves, tt_move, ply) ==
  LET Score(m) ==
        LET e == GameEdgeOf(p, m)
            tt_part == IF SomeMove(m) = tt_move THEN 10000000 ELSE 0
            capture_part ==
              IF e.victim # EMPTY
              THEN 1000000 + 10 * PieceValue(get_piece_type(e.victim))
                   - PieceValue(get_piece_type(e.piece))
              ELSE 0
            promotion_part == IF m.promotion # 0 THEN 900000 + PieceValue(m.promotion) ELSE 0
            killer_part ==
              IF ply < MAX_DEPTH
              THEN IF SomeMove(m) = KillerAt(cx, ply, 1) THEN 800000
                   ELSE IF SomeMove(m) = KillerAt(cx, ply, 2) THEN 700000
                   ELSE 0
              ELSE 0
            history_part == IF e.piece < 32 THEN HistoryAt(cx, e.piece, m.to_sq) ELSE 0
        IN tt_part + capture_part + promotion_part + killer_part + history_part
  IN MovesOf(Call1(SortByScoreDesc, [i \in 1..Len(moves) |->
                                       [mv |-> moves[i], score |-> Score(moves[i])]]))

\* the captures and promotions of quiescence, best first (425-429)
QuiescenceMoves(p) ==
  LET moves == game_legal_moves(p)
      keep == SelectSeq(moves, LAMBDA m : \/ GameEdgeOf(p, m).victim # EMPTY
                                          \/ m.is_en_passant
                                          \/ m.promotion # 0)
  IN MovesOf(Call1(SortByScoreDesc, [i \in 1..Len(keep) |->
                                       [mv |-> keep[i], score |-> evaluate_move(p, keep[i])]]))

\* board.make_move(&mv) inside the search
SearchMake(cx) ==
  [cx EXCEPT !.makes_after_stop = IF cx.seen THEN @ + 1 ELSE @]

RECURSIVE quiescence(_, _, _, _)
RECURSIVE QuiescenceLoop(_, _, _, _, _, _)

\* the move loop of quiescence (431-446), from the i-th capture on
QuiescenceLoop(cx, p, captures, i, alpha, beta) ==
  IF i > Len(captures) THEN SearchResult(alpha, cx)
  ELSE IF MoveLoopStop(cx) THEN SearchResult(alpha, [Loaded(cx) EXCEPT !.cut = TRUE])
  ELSE Let(Call4(quiescence, SearchMake(Loaded(cx)), game_make_move(p, captures[i]),
                 -beta, -alpha), LAMBDA r :
         LET score == -r.score
         IN IF score >= beta THEN SearchResult(beta, r.cx)
            ELSE Call6(QuiescenceLoop, r.cx, p, captures, i + 1,
                       IF score > alpha THEN score ELSE alpha, beta))

\* WorkerSearch::quiescence
quiescence(cx, p, alpha, beta) ==
  LET c1 == [cx EXCEPT !.nodes_searched = @ + 1]
      stand_pat == evaluate(p)
  IN IF stand_pat >= beta THEN SearchResult(beta, c1)
     ELSE Call6(QuiescenceLoop, c1, p, QuiescenceMoves(p), 1,
                IF stand_pat > alpha THEN stand_pat ELSE alpha, beta)

\* futility pruning without the test of moves_searched
FutilityPrune_FirstMoveToo(fr, moves_searched, is_quiet, alpha) ==
  /\ fr.static_eval # <<>>
  /\ fr.extended_depth <= 3 /\ ~fr.in_check /\ is_quiet
  /\ fr.static_eval[1] + FUTILITY_MARGIN[fr.extended_depth + 1] <= alpha

\* the test of futility pruning (305-315): the move is skipped
FutilityPrune(fr, moves_searched, is_quiet, alpha) ==
  /\ fr.static_eval # <<>>
  /\ moves_searched > 0 /\ fr.extended_depth <= 3 /\ ~fr.in_check /\ is_quiet
  /\ fr.static_eval[1] + FUTILITY_MARGIN[fr.extended_depth + 1] <= alpha

\* the node at the end of its move loop: whether one of its own loads of the
\* stop flag returned true (in the loop, or the one before the store), and
\* what it is about to return
LoopEnd(loop) ==
  LET observed == loop.stopped \/ (loop.cx.use_tt /\ StopLoad(loop.cx))
      below == loop.cx.seen \/ (loop.cx.use_tt /\ StopLoad(loop.cx))
  IN [loop.cx EXCEPT !.unsearched = @ \/ (~observed /\ loop.best_score <= -INFINITY),
                     !.unsearched_unseen = @ \/ (~below /\ loop.best_score <= -INFINITY)]

RECURSIVE alphabeta(_, _, _, _, _, _, _, _, _)
RECURSIVE MoveLoop(_, _, _, _, _, _, _, _, _)

\* the move loop of alphabeta (300-392), from the i-th ordered move on; fr
\* holds what the loop does not change: beta, ply, is_root, extended_depth,
\* in_check, static_eval
MoveLoop(cx, p, ordered, i, alpha, best_score, best_move_at_node, moves_searched, fr) ==
  IF i > Len(ordered)
  THEN [cx |-> cx, best_score |-> best_score, best_move_at_node |-> best_move_at_node,
        stopped |-> FALSE]
  ELSE IF MoveLoopStop(cx)
  THEN [cx |-> [Loaded(cx) EXCEPT !.cut = TRUE],
        best_score |-> best_score, best_move_at_node |-> best_move_at_node,
        stopped |-> TRUE]
  ELSE
    LET c0 == Loaded(cx)
        mv == ordered[i]
        e == GameEdgeOf(p, mv)
        is_capture == e.victim # EMPTY \/ mv.is_en_passant
        is_quiet == ~is_capture /\ mv.promotion = 0
        d == fr.extended_depth
        futile == FutilityPrune(fr, moves_searched, is_quiet, alpha)
    IN IF futile
       THEN Call9(MoveLoop, c0, p, ordered, i + 1, alpha, best_score,
                  best_move_at_node, moves_searched + 1, fr)
       ELSE
         LET child == game_make_move(p, mv)
             new_hash == hash_position(child)
             c1 == SearchMake(c0)
             lmr == /\ c1.use_lmr /\ moves_searched >= LMR_FULL_DEPTH_MOVES
                    /\ d >= LMR_REDUCTION_LIMIT /\ is_quiet /\ ~fr.in_check
             reduction == 1 + (moves_searched \div 6)
             reduced_depth == Max(d - 1 - reduction, 1)
         IN
         \* the first search of the move: reduced, null window, or full
         Let(IF lmr
             THEN Call9(alphabeta, c1, child, reduced_depth, -alpha - 1, -alpha,
                        fr.ply + 1, FALSE, new_hash, TRUE)
             ELSE IF moves_searched > 0
             THEN Call9(alphabeta, c1, child, d - 1, -alpha - 1, -alpha,
                        fr.ply + 1, FALSE, new_hash, TRUE)
             ELSE Call9(alphabeta, c1, child, d - 1, -fr.beta, -alpha,
                        fr.ply + 1, FALSE, new_hash, TRUE), LAMBDA r1 :
         LET s1 == -r1.score
             again == IF lmr THEN s1 > alpha
                      ELSE IF moves_searched > 0 THEN s1 > alpha /\ s1 < fr.beta
                      ELSE FALSE
         IN
         Let(IF again
             THEN Call9(alphabeta, r1.cx, child, d - 1, -fr.beta, -alpha,
                        fr.ply + 1, FALSE, new_hash, TRUE)
             ELSE r1, LAMBDA r2 :
         LET score == -r2.score
             improved == score > best_score
             best_score2 == IF improved THEN score ELSE best_score
             best_move2 == IF improved THEN SomeMove(mv) ELSE best_move_at_node
             c2 == IF improved /\ fr.is_root
                   THEN [r2.cx EXCEPT !.best_move = SomeMove(mv), !.assigned = TRUE]
                   ELSE r2.cx
             alpha2 == IF score > alpha THEN score ELSE alpha
         IN IF alpha2 >= fr.beta
            THEN [cx |-> IF is_quiet /\ fr.ply < MAX_DEPTH
                         THEN KillerUpdate(c2, fr.ply, mv, e.piece, d)
                         ELSE c2,
                  best_score |-> best_score2, best_move_at_node |-> best_move2,
                  stopped |-> FALSE]
            ELSE Call9(MoveLoop, c2, p, ordered, i + 1, alpha2, best_score2,
                       best_move2, moves_searched + 1, fr)))

\* `self.tt.store(..)` with the flag computed from the window (396-404)
StoreEntry(cx, position_hash, extended_depth, original_alpha, beta, best_score, best_move_at_node) ==
  LET flag == IF best_score <= original_alpha THEN TT_ALPHA
              ELSE IF best_score >= beta THEN TT_BETA
              ELSE TT_EXACT
  IN [cx EXCEPT !.tt = TTStore(cx.tt, position_hash, extended_depth,
                               best_score, flag, best_move_at_node),
                !.stored_cut = @ \/ cx.cut,
                !.stored_none = @ \/ best_move_at_node = NoneMove
                                  \/ best_score <= -INFINITY]

\* a store that does not look at the stop flag: `if self.use_tt`
StoreResult_Unguarded(cx, position_hash, extended_depth, original_alpha, beta, best_score, best_move_at_node) ==
  IF ~cx.use_tt THEN cx
  ELSE StoreEntry(cx, position_hash, extended_depth, original_alpha, beta,
                  best_score, best_move_at_node)

\* the TT store at the end of alphabeta (394-405)
StoreResult(cx, position_hash, extended_depth, original_alpha, beta, best_score, best_move_at_node) ==
  IF ~cx.use_tt THEN cx
  ELSE IF StopLoad(cx) THEN Loaded(cx)
  ELSE StoreEntry(Loaded(cx), position_hash, extended_depth, original_alpha, beta,
                  best_score, best_move_at_node)

\* WorkerSearch::alphabeta
alphabeta(cx, p, depth, alpha, beta, ply, is_root, position_hash, allow_null) ==
  IF AlphabetaEntryStop(cx) THEN SearchResult(0, [Loaded(cx) EXCEPT !.cut = TRUE])
  ELSE
  LET c1 == [Loaded(cx) EXCEPT !.nodes_searched = @ + 1] IN
  IF ~is_root /\ (is_fifty_moves(p) \/ is_repetition(p)) THEN SearchResult(-CONTEMPT, c1)
  ELSE IF ~is_root /\ game_insufficient_material(p) THEN SearchResult(-CONTEMPT, c1)
  ELSE IF ~is_root /\ repetition_count(p) >= 2 THEN SearchResult(-CONTEMPT * 2, c1)
  ELSE
  LET probe == IF c1.use_tt THEN TTProbe(c1.tt, position_hash)
               ELSE [entry |-> <<>>, tt |-> c1.tt]
      c2 == [c1 EXCEPT !.tt = probe.tt]
      hit == probe.entry # <<>>
      entry == probe.entry[1]
      usable == hit /\ ~is_root /\ entry.depth >= depth
  IN
  IF usable /\ entry.flag = TT_EXACT THEN SearchResult(entry.score, c2)
  ELSE IF usable /\ entry.flag = TT_ALPHA /\ entry.score <= alpha THEN SearchResult(alpha, c2)
  ELSE IF usable /\ entry.flag = TT_BETA /\ entry.score >= beta THEN SearchResult(beta, c2)
  ELSE
  LET tt_move == IF hit THEN entry.best_move ELSE NoneMove
      in_check == game_in_check(p)
      extended_depth == IF in_check THEN depth + CHECK_EXTENSION ELSE depth
      moves == game_legal_moves(p)
  IN
  IF moves = <<>> THEN SearchResult(IF in_check THEN -MATE_SCORE + ply ELSE 0, c2)
  ELSE IF extended_depth <= 0 THEN Call4(quiescence, c2, p, alpha, beta)
  ELSE
  LET static_eval == IF extended_depth <= 4 /\ ~in_check /\ Abs(alpha) < MATE_SCORE - 100
                     THEN <<evaluate(p)>> ELSE <<>>
      try_null == /\ c2.use_null_move /\ allow_null /\ ~is_root /\ ~in_check
                  /\ extended_depth >= 3 /\ has_big_pieces(p)
  IN
  Let(IF try_null
      THEN Call9(alphabeta, c2, game_null_move(p),
                 extended_depth - 1 - NULL_MOVE_REDUCTION,
                 -beta, -beta + 1, ply + 1, FALSE,
                 XorSideKey(position_hash), FALSE)
      ELSE SearchResult(0, c2), LAMBDA null :
  LET c3 == null.cx IN
  IF try_null /\ -null.score >= beta THEN SearchResult(beta, c3)
  ELSE
  Let(Call9(MoveLoop, c3, p, order_moves(c3, p, moves, tt_move, ply), 1, alpha,
            -INFINITY, NoneMove, 0,
            [beta |-> beta, ply |-> ply, is_root |-> is_root,
             extended_depth |-> extended_depth, in_check |-> in_check,
             static_eval |-> static_eval]), LAMBDA loop :
  SearchResult(loop.best_score,
               StoreResult(LoopEnd(loop), position_hash, extended_depth, alpha, beta,
                           loop.best_score, loop.best_move_at_node))))

(***************************************************************************)
(* The positions the board is constructed from.                            *)
(***************************************************************************)
\* 4k2r/8/8/8/3p4/8/4P3/4K2R w Kk - 0 1
FenCastleEp ==
  <<<<"4", "k", "2", "r", "/", "8", "/", "8", "/", "8", "/", "3", "p", "4", "/",
      "8", "/", "4", "P", "3", "/", "4", "K", "2", "R">>,
    <<"w">>, <<"K", "k">>, <<"-">>, <<"0">>, <<"1">>>>
\* 1n2k3/P7/8/8/8/8/8/4K3 w - - 98 7
FenPromotion ==
  <<<<"1", "n", "2", "k", "3", "/", "P", "7", "/", "8", "/", "8", "/", "8", "/",
      "8", "/", "8", "/", "4", "K", "3">>,
    <<"w">>, <<"-">>, <<"-">>, <<"9", "8">>, <<"7">>>>
\* 4k3/8/8/8/8/8/8/4K3 w K - 0 1: from_fen takes the castling field as written
FenRightNoRook ==
  <<<<"4", "k", "3", "/", "8", "/", "8", "/", "8", "/", "8", "/", "8", "/", "8", "/",
      "4", "K", "3">>,
    <<"w">>, <<"K">>, <<"-">>, <<"0">>, <<"1">>>>

StartFens == {FenCastleEp, FenPromotion, FenRightNoRook}

(***************************************************************************)
(* uci.rs: the options.  Texts are sequences of one-character strings.     *)
(***************************************************************************)
UpperChars ==
  <<"A", "B", "C", "D", "E", "F", "G", "H", "I", "J", "K", "L", "M",
    "N", "O", "P", "Q", "R", "S", "T", "U", "V", "W", "X", "Y", "Z">>
LowerChars ==
  <<"a", "b", "c", "d", "e", "f", "g", "h", "i", "j", "k", "l", "m",
    "n", "o", "p", "q", "r", "s", "t", "u", "v", "w", "x", "y", "z">>

\* str::to_lowercase
to_lowercase(text) ==
  [i \in 1..Len(text) |->
     IF \E k \in 1..26 : UpperChars[k] = text[i]
     THEN LowerChars[CHOOSE k \in 1..26 : UpperChars[k] = text[i]]
     ELSE text[i]]

RECURSIVE StripLeadingZeros(_)
StripLeadingZeros(digits) ==
  IF Len(digits) > 1 /\ Head(digits) = "0" THEN StripLeadingZeros(Tail(digits))
  ELSE digits

\* str::parse::<i32>, as an Option: an optional sign, then one or more
\* digits and nothing else, and a value an i32 holds
parse_i32(text) ==
  LET signed == text # <<>> /\ Head(text) \in {"+", "-"}
      negative == signed /\ Head(text) = "-"
      digits == IF signed THEN Tail(text) ELSE text
  IN IF digits = <<>> \/ \E i \in 1..Len(digits) : ~is_ascii_digit(digits[i])
     THEN <<>>
     ELSE LET sig == StripLeadingZeros(digits) IN
          IF Len(sig) > 10 THEN <<>>
          ELSE IF Len(sig) = 10
          THEN LET high == DecimalValue(SubSeq(sig, 1, 9), 0)
                   low == to_digit(sig[10])
               IN IF high < 214748364
                     \/ (high = 214748364 /\ low <= (IF negative THEN 8 ELSE 7))
                  THEN <<IF negative THEN (0 - high) * 10 - low ELSE high * 10 + low>>
                  ELSE <<>>
          ELSE <<IF negative THEN 0 - DecimalValue(sig, 0) ELSE DecimalValue(sig, 0)>>

RECURSIVE NatToText(_)
NatToText(n) ==
  IF n < 10 THEN <<DigitChars[n + 1]>>
  ELSE NatToText(n \div 10) \o <<DigitChars[(n % 10) + 1]>>

\* i32::to_string
to_string(val) == IF val < 0 THEN <<"-">> \o NatToText(0 - val) ELSE NatToText(val)

\* [&str]::join(" ")
RECURSIVE JoinWords(_)
JoinWords(words) ==
  IF words = <<>> THEN <<>>
  ELSE IF Len(words) = 1 THEN Head(words)
  ELSE Head(words) \o <<" ">> \o JoinWords(Tail(words))

TextTrue == <<"t", "r", "u", "e">>
TextFalse == <<"f", "a", "l", "s", "e">>
TextName == <<"n", "a", "m", "e">>
TextValue == <<"v", "a", "l", "u", "e">>

NameThreads == <<"T", "h", "r", "e", "a", "d", "s">>
NameHash == <<"H", "a", "s", "h">>
NameDepth == <<"D", "e", "p", "t", "h">>
NamePonder == <<"P", "o", "n", "d", "e", "r">>
NameUseTranspositionTable == <<"U", "s", "e", "T", "r", "a", "n", "s", "p", "o", "s", "i", "t", "i", "o", "n", "T", "a", "b", "l", "e">>
NameUseNullMove == <<"U", "s", "e", "N", "u", "l", "l", "M", "o", "v", "e">>
NameUseLMR == <<"U", "s", "e", "L", "M", "R">>
NameUseIID == <<"U", "s", "e", "I", "I", "D">>
NameUseRazoring == <<"U", "s", "e", "R", "a", "z", "o", "r", "i", "n", "g">>
NameUseReverseFutility == <<"U", "s", "e", "R", "e", "v", "e", "r", "s", "e", "F", "u", "t", "i", "l", "i", "t", "y">>
NameUseLMP == <<"U", "s", "e", "L", "M", "P">>
NameUseProbcut == <<"U", "s", "e", "P", "r", "o", "b", "c", "u", "t">>
NameUseSingularExtensions == <<"U", "s", "e", "S", "i", "n", "g", "u", "l", "a", "r", "E", "x", "t", "e", "n", "s", "i", "o", "n", "s">>
NameUseCountermove == <<"U", "s", "e", "C", "o", "u", "n", "t", "e", "r", "m", "o", "v", "e">>
NameClearHash == <<"C", "l", "e", "a", "r", " ", "H", "a", "s", "h">>

\* UCIOption::spin, UCIOption::check, UCIOption::button; min and max are Options
UCIOptionSpin(name, default, min, max) ==
  [name |-> name, opt_type |-> "spin", default |-> to_string(default),
   value |-> to_string(default), min |-> <<min>>, max |-> <<max>>]
UCIOptionCheck(name, default) ==
  [name |-> name, opt_type |-> "check",
   default |-> IF default THEN TextTrue ELSE TextFalse,
   value |-> IF default THEN TextTrue ELSE TextFalse, min |-> <<>>, max |-> <<>>]
UCIOptionButton(name) ==
  [name |-> name, opt_type |-> "button", default |-> <<>>, value |-> <<>>,
   min |-> <<>>, max |-> <<>>]

\* set_value: the option after the call and the call's result
set_value(opt, value_str) ==
  IF opt.opt_type = "spin"
  THEN LET val == parse_i32(value_str) IN
       IF val # <<>> /\ opt.min # <<>> /\ opt.max # <<>>
          /\ val[1] >= opt.min[1] /\ val[1] <= opt.max[1]
       THEN [opt |-> [opt EXCEPT !.value = to_string(val[1])], ok |-> TRUE]
       ELSE [opt |-> opt, ok |-> FALSE]
  ELSE IF opt.opt_type = "check"
  THEN [opt |-> [opt EXCEPT !.value = IF to_lowercase(value_str) = TextTrue
                                      THEN TextTrue ELSE TextFalse],
        ok |-> TRUE]
  ELSE [opt |-> opt, ok |-> FALSE]

\* get_int: value.parse().unwrap_or(0)
get_int(opt) == IF parse_i32(opt.value) # <<>> THEN parse_i32(opt.value)[1] ELSE 0
get_bool(opt) == to_lowercase(opt.value) = TextTrue

\* init_options, on a machine of num_cpus processors
init_options(num_cpus) ==
  <<UCIOptionSpin(NameThreads, num_cpus, 1, 256),
    UCIOptionSpin(NameHash, 64, 1, 1024),
    UCIOptionSpin(NameDepth, 10, 1, 30),
    UCIOptionCheck(NamePonder, TRUE),
    UCIOptionCheck(NameUseTranspositionTable, TRUE),
    UCIOptionCheck(NameUseNullMove, TRUE),
    UCIOptionCheck(NameUseLMR, TRUE),
    UCIOptionCheck(NameUseIID, TRUE),
    UCIOptionCheck(NameUseRazoring, TRUE),
    UCIOptionCheck(NameUseReverseFutility, TRUE),
    UCIOptionCheck(NameUseLMP, TRUE),
    UCIOptionCheck(NameUseProbcut, TRUE),
    UCIOptionCheck(NameUseSingularExtensions, TRUE),
    UCIOptionCheck(NameUseCountermove, TRUE),
    UCIOptionButton(NameClearHash)>>

(***************************************************************************)
(* The session: what the engine is started with and what the GUI sends.    *)
(***************************************************************************)
GoLine(depth) == [cmd |-> "go", depth |-> depth]
StopLine == [cmd |-> "stop", depth |-> 0]

\* a session: the value of the Threads option and the lines written to stdin
Session(num_threads, lines) == [num_threads |-> num_threads, script |-> lines]

Sessions ==
  { Session(2, <<GoLine(2), StopLine>>),
    Session(2, <<StopLine, GoLine(1)>>),
    Session(1, <<GoLine(2), StopLine>>),
    Session(1, <<GoLine(2), GoLine(2)>>),
    Session(1, <<GoLine(1), GoLine(2)>>) }

RECURSIVE game_play(_, _)
\* cmd_position: the moves of the list made one after the other
game_play(p, targets) ==
  IF targets = <<>> THEN p
  ELSE LET edges == GameAt(p.pos).edges
           e == edges[CHOOSE i \in 1..Len(edges) : edges[i].target = Head(targets)]
       IN game_play(game_make_move(p, e.mv), Tail(targets))

\* the positions `position` has set up before the first go: three from a
\* FEN (an ordinary one, a checkmate, a stalemate) and one reached by moves
\* that bring the first position back
RootBoards ==
  { game_from_fen(0, 0), game_from_fen(6, 0), game_from_fen(8, 0),
    game_play(game_from_fen(0, 0), <<1, 2, 3, 0>>) }

EngineNew(num_threads) ==
  [num_threads |-> num_threads, use_tt |-> TRUE, use_null_move |-> TRUE,
   use_lmr |-> TRUE, nodes_searched |-> 0, best_move |-> NoneMove, pv |-> <<>>]

CoordinatorIdle ==
  [pc |-> "idle", depth |-> 0, total_nodes |-> 0, join_next |-> 0, adopted |-> 0]

InitSearch ==
  /\ game_seed \in 0..MaxSeed
  /\ stop_search = FALSE
  /\ tt = TTNew
  /\ \E session \in Sessions :
       /\ engine = EngineNew(session.num_threads)
       /\ options = init_options(session.num_threads)
       /\ script = session.script
  /\ coordinator = CoordinatorIdle
  /\ workers = <<>>
  /\ uci_board \in RootBoards
  /\ arrived = 0
  /\ lines_read = 0
  /\ output = <<>>
  /\ results = <<>>

\* the engine before any session, for the specifications that only move the board
SearchAtRest ==
  /\ game_seed = 0
  /\ stop_search = FALSE
  /\ tt = TTNew
  /\ engine = EngineNew(1)
  /\ options = init_options(1)
  /\ coordinator = CoordinatorIdle
  /\ workers = <<>>
  /\ uci_board = game_from_fen(0, 0)
  /\ script = <<>>
  /\ arrived = 0
  /\ lines_read = 0
  /\ output = <<>>
  /\ results = <<>>

(***************************************************************************)
(* The board and its callers.                                              *)
(*   board       the Board a caller owns                                   *)
(*   undo_stack  the (move, UndoInfo) pairs of the moves made and not yet  *)
(*               unmade, innermost last, each with the board it was made   *)
(*               on (pre, kept for the checks only)                        *)
(*   last        the last operation on the board: its kind, its move, and  *)
(*               for an unmake the board before the paired make            *)
(***************************************************************************)
NoMove == MoveNew(0, 0)

InitBoard ==
  /\ \E fen \in StartFens : board = from_fen(fen)
  /\ undo_stack = <<>>
  /\ last = [op |-> "from_fen", mv |-> NoMove, pre |-> <<>>]
  /\ SearchAtRest

\* a caller (perft, alphabeta, quiescence, cmd_position) makes a legal move
MakeMoveWithin(plies) ==
  /\ Len(undo_stack) < plies
  /\ \E legal \in {generate_legal_moves(board)} :
     \E i \in 1..Len(legal) :
     \E r \in {make_move(board, legal[i])} :
       /\ board' = r.board
       /\ undo_stack' = Append(undo_stack, [mv |-> legal[i], undo |-> r.undo, pre |-> board])
       /\ last' = [op |-> "make", mv |-> legal[i], pre |-> <<>>]
  /\ UNCHANGED searchVars

MakeMove == MakeMoveWithin(MaxPlies)

\* the caller unmakes its innermost move with the UndoInfo make_move returned
UnmakeMove ==
  /\ undo_stack # <<>>
  /\ LET top == undo_stack[Len(undo_stack)] IN
     /\ board' = unmake_move(board, top.mv, top.undo)
     /\ undo_stack' = SubSeq(undo_stack, 1, Len(undo_stack) - 1)
     /\ last' = [op |-> "unmake", mv |-> top.mv, pre |-> <<top.pre>>]
  /\ UNCHANGED searchVars

NextBoard == MakeMove \/ UnmakeMove

SpecBoard == InitBoard /\ [][NextBoard]_vars

(***************************************************************************)
(* Checks on the board (SpecBoard).                                        *)
(***************************************************************************)
SeqRange(s) == {s[i] : i \in 1..Len(s)}

\* C1: make_move followed by unmake_move with the returned undo record
\* restores the board exactly: for every move generate_pseudo_legal_moves
\* emits in a reachable position, and for every unmake a caller performs
\* (the board then equals the board its paired make was applied to).
C1_MakeUnmakeRestores ==
  /\ \A mv \in SeqRange(generate_pseudo_legal_moves(board)) :
       \A r \in {make_move(board, mv)} : unmake_move(r.board, mv, r.undo) = board
  /\ last.op = "unmake" => board = last.pre[1]

\* The rules of chess, in file/rank coordinates, for "the piece on `from`
\* attacks the square `to`"; used to state C7 independently of the offsets and
\* wrap tests of is_square_attacked.
FileOf(sq) == sq % 8
RankOf(sq) == sq \div 8
Sign(x) == IF x > 0 THEN 1 ELSE IF x < 0 THEN -1 ELSE 0
PathClear(b, from, to) ==
  LET df == Sign(FileOf(to) - FileOf(from))
      dr == Sign(RankOf(to) - RankOf(from))
      n == IF Abs(FileOf(to) - FileOf(from)) > Abs(RankOf(to) - RankOf(from))
           THEN Abs(FileOf(to) - FileOf(from)) ELSE Abs(RankOf(to) - RankOf(from))
  IN \A k \in 1..(n - 1) : b.squares[from + k * (dr * 8 + df)] = EMPTY
ChessAttacks(b, from, to) ==
  LET piece == b.squares[from]
      pt == get_piece_type(piece)
      df == FileOf(to) - FileOf(from)
      dr == RankOf(to) - RankOf(from)
      straight == (df = 0 /\ dr # 0) \/ (dr = 0 /\ df # 0)
      diagonal == Abs(df) = Abs(dr) /\ df # 0
  IN CASE pt = PAWN -> Abs(df) = 1 /\ dr = (IF get_piece_color(piece) = WHITE THEN 1 ELSE -1)
       [] pt = KNIGHT -> {Abs(df), Abs(dr)} = {1, 2}
       [] pt = KING -> Abs(df) <= 1 /\ Abs(dr) <= 1 /\ from # to
       [] pt = ROOK -> straight /\ PathClear(b, from, to)
       [] pt = BISHOP -> diagonal /\ PathClear(b, from, to)
       [] pt = QUEEN -> (straight \/ diagonal) /\ PathClear(b, from, to)
       [] OTHER -> FALSE
\* after mv, the king of the side that moved stands on a square an enemy piece attacks
MoverKingAttackedAfter(b, mv) ==
  LET mover == IF b.white_to_move THEN WHITE ELSE BLACK IN
  \E after \in {make_move(b, mv).board} :
  \E k \in {sq \in 0..63 : after.squares[sq] = mover + KING} :
  \E from \in {sq \in 0..63 : after.squares[sq] # EMPTY
                                /\ get_piece_color(after.squares[sq]) # mover} :
    ChessAttacks(after, from, k)

\* s is t with some elements left out, order and multiplicity kept
RECURSIVE IsSubSeq(_, _)
IsSubSeq(s, t) ==
  IF s = <<>> THEN TRUE
  ELSE IF t = <<>> THEN FALSE
  ELSE IF Head(s) = Head(t) THEN IsSubSeq(Tail(s), Tail(t))
  ELSE IsSubSeq(s, Tail(t))

\* C7: generate_legal_moves returns exactly the pseudo-legal moves after which
\* the mover's own king is not attacked by the opponent, each once and in the
\* generator's order.  (It works on a clone: the caller's board is an
\* immutable borrow.)
C7_LegalMovesExact ==
  \A pseudo \in {generate_pseudo_legal_moves(board)} :
  \A legal \in {generate_legal_moves(board)} :
    /\ SeqRange(legal) = {mv \in SeqRange(pseudo) : ~MoverKingAttackedAfter(board, mv)}
    /\ IsSubSeq(legal, pseudo)
    /\ Cardinality(SeqRange(legal)) = Len(legal)

\* C7 witness: a position where the filter keeps some moves and drops others
C7_Witness ==
  \A pseudo \in {generate_pseudo_legal_moves(board)} :
  \A legal \in {generate_legal_moves(board)} :
    /\ legal # <<>>
    /\ \E mv \in SeqRange(pseudo) : mv \notin SeqRange(legal)

\* C9: position_history.len() is the number of moves made and not yet unmade
\* plus 1, and so never 0.
C9_HistoryLength ==
  /\ Len(board.position_history) = Len(undo_stack) + 1
  /\ board.position_history # <<>>

\* C9 witness: after makes and a paired unmake, with a move still made
C9_Witness == last.op = "unmake" /\ Len(undo_stack) >= 1

\* C10: make_move never sets a castling-rights bit: a bit that is clear before
\* a make_move is clear after it.
C10_CastlingMonotone ==
  [][last'.op = "make" =>
       \A bit \in {CASTLE_WK, CASTLE_WQ, CASTLE_BK, CASTLE_BQ} :
         ~HasBit(board.castling_rights, bit) => ~HasBit(board'.castling_rights, bit)]_vars

\* C10 witness: a make_move has just cleared one right and left another set
C10_Witness ==
  /\ last.op = "make"
  /\ undo_stack # <<>>
  /\ undo_stack[Len(undo_stack)].undo.castling_rights # board.castling_rights
  /\ board.castling_rights # 0

(***************************************************************************)
(* ParallelSearchEngine::search and the threads it runs.                   *)
(*                                                                         *)
(* A thread stands at one of                                               *)
(*   depth1, aspiration, research        about to call alphabeta           *)
(*   depth1_call, aspiration_call, research_call    inside that call       *)
(*   loop               at the head of `for current_depth in 2..=depth`    *)
(*   aspiration_check   after the aspiration call, before its stop test    *)
(*   adopt              at `if !stop && self.best_move.is_some()`          *)
(*   done               out of its loop (a helper: ready to be joined)     *)
(*   joined             a helper the coordinator has joined                *)
(* and carries, for the checks only:                                       *)
(*   entered_stopped    the flag was set when it entered its current call  *)
(*   stop_waiting       a stop line was waiting in stdin when it entered   *)
(*                      its latest depth-1 or aspiration call              *)
(*   interrupted        one of its calls was cut after it had begun        *)
(*   self_move_cut      self.best_move was last written by a call that was *)
(*                      cut; move_cut, score_cut: the same for the locals  *)
(*                      best_move and best_score                           *)
(* A root alphabeta call is two steps, entering and returning, so that the *)
(* coordinator can set the stop flag in between; which of the call's loads *)
(* first sees the flag is then open (StopAtChoices).                       *)
(***************************************************************************)
ThreadIds == DOMAIN workers
HelperIds == ThreadIds \ {0}

\* WorkerSearch::new, and the resets and locals at the head of
\* WorkerSearch::search (146-155) and of the main thread's part (581-587)
WorkerNew(thread_id, e, root, depth) ==
  [thread_id |-> thread_id,
   nodes_searched |-> 0, best_move |-> NoneMove,
   killer_moves |-> <<>>, history |-> <<>>,
   use_tt |-> e.use_tt, use_null_move |-> e.use_null_move, use_lmr |-> e.use_lmr,
   pc |-> "depth1", root |-> root, depth |-> depth,
   thread_depth_offset |-> IF thread_id % 2 = 1 THEN 1 ELSE 0,
   local_best_move |-> NoneMove, local_best_score |-> -INFINITY,
   current_depth |-> 2, alpha |-> -INFINITY, beta |-> INFINITY, score |-> 0,
   \* the calls of info_callback so far (the main thread only)
   reported |-> <<>>,
   \* for the checks only
   entered_stopped |-> FALSE, stop_waiting |-> FALSE, makes_after_stop |-> 0,
   interrupted |-> FALSE,
   self_move_cut |-> FALSE, move_cut |-> FALSE, score_cut |-> FALSE,
   stored_cut |-> FALSE, unsearched |-> FALSE, unsearched_unseen |-> FALSE,
   stored_none |-> FALSE,
   \* the depth of the last iteration the thread ran to its end (0: none)
   completed_depth |-> 0,
   \* the root calls the aspiration loop of the current depth has made
   aspiration_calls |-> 0]

\* a stop line has reached stdin and has not been read
StopWaiting ==
  \E i \in (lines_read + 1)..arrived : script[i].cmd = "stop"

CallContext(w, stop_at) ==
  [nodes_searched |-> w.nodes_searched, best_move |-> w.best_move,
   killer_moves |-> w.killer_moves, history |-> w.history,
   use_tt |-> w.use_tt, use_null_move |-> w.use_null_move, use_lmr |-> w.use_lmr,
   tt |-> tt, loads |-> 0, stop_at |-> stop_at, seen |-> FALSE, cut |-> FALSE,
   assigned |-> FALSE, makes_after_stop |-> w.makes_after_stop,
   stored_cut |-> FALSE, unsearched |-> FALSE, unsearched_unseen |-> FALSE,
   stored_none |-> FALSE]

\* the WorkerSearch after a call
AfterCall(w, cx) ==
  [w EXCEPT !.nodes_searched = cx.nodes_searched, !.best_move = cx.best_move,
            !.killer_moves = cx.killer_moves, !.history = cx.history,
            !.makes_after_stop = cx.makes_after_stop,
            !.interrupted = w.interrupted
                            \/ (cx.cut /\ cx.nodes_searched > w.nodes_searched),
            !.self_move_cut = IF cx.assigned THEN cx.cut ELSE w.self_move_cut,
            !.stored_cut = @ \/ cx.stored_cut,
            !.unsearched = @ \/ cx.unsearched,
            !.unsearched_unseen = @ \/ cx.unsearched_unseen,
            !.stored_none = @ \/ cx.stored_none]

\* which load of the call first returns true: every load if the flag was set
\* when the call was entered, none if it is still clear at the return, and
\* any of them otherwise
StopAtChoices(w) ==
  IF w.entered_stopped THEN {0}
  ELSE IF ~stop_search THEN {-1}
  ELSE (-1)..MaxStopAt

\* cmd_go up to the call of search (401-436), and search up to the main
\* thread's first alphabeta (551-587): the flag is cleared, the helpers are
\* spawned, the main worker is made
CmdGo ==
  /\ coordinator.pc = "idle"
  /\ lines_read < arrived
  /\ script[lines_read + 1].cmd = "go"
  /\ lines_read' = lines_read + 1
  /\ LET depth == IF script[lines_read + 1].depth < 30
                  THEN script[lines_read + 1].depth ELSE 30
     IN /\ coordinator' = [pc |-> "searching", depth |-> depth,
                           total_nodes |-> 0, join_next |-> 1, adopted |-> 0]
        /\ workers' = [t \in 0..(engine.num_threads - 1) |->
                         WorkerNew(t, engine, uci_board, depth)]
  /\ stop_search' = FALSE
  /\ engine' = [engine EXCEPT !.nodes_searched = 0, !.best_move = NoneMove, !.pv = <<>>]
  /\ UNCHANGED <<boardVars, options, game_seed, tt, uci_board, script, arrived, output, results>>

\* a thread enters a root alphabeta call
WorkerEnter(t) ==
  /\ t \in ThreadIds
  /\ workers[t].pc \in {"depth1", "aspiration", "research"}
  /\ LET w == workers[t] IN
     workers' = [workers EXCEPT ![t] =
       [w EXCEPT !.pc = IF w.pc = "depth1" THEN "depth1_call"
                        ELSE IF w.pc = "aspiration" THEN "aspiration_call"
                        ELSE "research_call",
                 !.aspiration_calls = IF w.pc = "aspiration" THEN @ + 1 ELSE @,
                 !.entered_stopped = stop_search,
                 !.stop_waiting = IF w.pc = "research" THEN w.stop_waiting
                                  ELSE StopWaiting]]
  /\ UNCHANGED <<boardVars, options, game_seed, stop_search, tt, engine, coordinator,
                 uci_board, script, arrived, lines_read, output, results>>

\* the arguments of the call a thread is in
CallDepth(w) ==
  IF w.pc = "depth1_call" THEN 1 ELSE w.current_depth + w.thread_depth_offset
CallAlpha(w) == IF w.pc = "aspiration_call" THEN w.alpha ELSE -INFINITY
CallBeta(w) == IF w.pc = "aspiration_call" THEN w.beta ELSE INFINITY

\* types.rs square_name and Move::to_uci, as texts of one-character strings:
\* the two squares and the promotion letter; the castling and en-passant
\* marks of the Move are not written
square_name(sq) == <<FileChars[(sq % 8) + 1], RankChars[(sq \div 8) + 1]>>
to_uci(mv) ==
  square_name(mv.from_sq) \o square_name(mv.to_sq) \o
  (CASE mv.promotion = QUEEN -> <<"q">>
     [] mv.promotion = ROOK -> <<"r">>
     [] mv.promotion = BISHOP -> <<"b">>
     [] mv.promotion = KNIGHT -> <<"n">>
     [] OTHER -> <<>>)

\* a callback after every root call that left a best move
CallbackDue_EveryCall(pc, best_move) == best_move # NoneMove

\* whether the main thread reports after the call it was in: after the
\* depth-1 call if it set a best move (592-604), and after the full-window
\* call that ends an iteration (636-651)
CallbackDue(pc, best_move) ==
  \/ pc = "depth1_call" /\ best_move # NoneMove
  \/ pc = "research_call"

\* cb(depth, score, nodes, time_ms, pv_str, hashfull, nps) with
\* pv_str = best_move.map(|m| m.to_uci()).unwrap_or_default(); helpers run
\* WorkerSearch::search, which has no callback.  cut, for the checks only:
\* the call that gave the score was cut short, or the stop flag is set.
InfoCallback(w, depth, score, cut) ==
  IF w.thread_id # 0 THEN w
  ELSE [w EXCEPT !.reported = Append(@,
          [depth |-> depth, score |-> score,
           pv |-> IF w.local_best_move # NoneMove
                  THEN to_uci(w.local_best_move[1]) ELSE <<>>,
           nodes |-> w.nodes_searched,
           \* for the checks only: the local best_move the score is reported
           \* and kept with, and self.best_move as the call that returned
           \* the score left it
           best_move |-> w.local_best_move,
           call_move |-> w.best_move,
           cut |-> cut])]

\* what the thread does with the value of the call (160-163, 179-182,
\* 198-202; 592-605, 636-652)
AfterReturn(w, r) ==
  LET w1 == AfterCall(w, r.cx)
      w2 == IF w.pc = "depth1_call"
            THEN IF w1.best_move # NoneMove
                 THEN [w1 EXCEPT !.pc = "loop", !.local_best_move = w1.best_move,
                                 !.local_best_score = r.score,
                                 !.move_cut = w1.self_move_cut, !.score_cut = r.cx.cut]
                 ELSE [w1 EXCEPT !.pc = "loop"]
            ELSE IF w.pc = "aspiration_call"
            THEN [w1 EXCEPT !.pc = "aspiration_check", !.score = r.score]
            ELSE [w1 EXCEPT !.pc = "loop", !.local_best_score = r.score,
                            !.score_cut = r.cx.cut, !.current_depth = w.current_depth + 1]
      w3 == IF w.pc \in {"depth1_call", "research_call"} /\ ~r.cx.cut
            THEN [w2 EXCEPT !.completed_depth = CallDepth(w)]
            ELSE w2
  IN IF CallbackDue(w.pc, w1.best_move)
     THEN InfoCallback(w3, IF w.pc = "depth1_call" THEN 1 ELSE w.current_depth,
                       r.score, r.cx.cut \/ stop_search)
     ELSE w3

\* the call returns
WorkerReturn(t) ==
  /\ t \in ThreadIds
  /\ workers[t].pc \in {"depth1_call", "aspiration_call", "research_call"}
  /\ \E stop_at \in StopAtChoices(workers[t]) :
     \E r \in {Call9(alphabeta, CallContext(workers[t], stop_at), workers[t].root,
                      CallDepth(workers[t]), CallAlpha(workers[t]),
                      CallBeta(workers[t]), 0, TRUE,
                      hash_position(workers[t].root), TRUE)} :
       /\ tt' = r.cx.tt
       /\ workers' = [workers EXCEPT ![t] = AfterReturn(workers[t], r)]
  /\ UNCHANGED <<boardVars, options, game_seed, stop_search, engine, coordinator,
                 uci_board, script, arrived, lines_read, output, results>>

\* the head of the iterative-deepening loop (166-175, 608-614)
WorkerLoopHead(t) ==
  /\ t \in ThreadIds
  /\ workers[t].pc = "loop"
  /\ LET w == workers[t] IN
     workers' = [workers EXCEPT ![t] =
       IF w.current_depth > w.depth \/ stop_search
       THEN [w EXCEPT !.pc = "done"]
       ELSE [w EXCEPT !.pc = "aspiration",
                      !.aspiration_calls = 0,
                      !.alpha = w.local_best_score - ASPIRATION_WINDOW,
                      !.beta = w.local_best_score + ASPIRATION_WINDOW]]
  /\ UNCHANGED <<boardVars, options, game_seed, stop_search, tt, engine, coordinator,
                 uci_board, script, arrived, lines_read, output, results>>

\* a loop that lowers alpha and raises beta by one window at a time
AspirationWiden_ByWindow(w) ==
  IF w.score <= w.alpha
  THEN [w EXCEPT !.pc = "aspiration", !.alpha = w.alpha - ASPIRATION_WINDOW]
  ELSE IF w.score >= w.beta
  THEN [w EXCEPT !.pc = "aspiration", !.beta = w.beta + ASPIRATION_WINDOW]
  ELSE [w EXCEPT !.pc = "adopt"]

\* `if score <= alpha { alpha = -INFINITY; } else if score >= beta
\* { beta = INFINITY; } else { break; }` (188-194, 627-633)
AspirationWiden(w) ==
  IF w.score <= w.alpha THEN [w EXCEPT !.pc = "aspiration", !.alpha = -INFINITY]
  ELSE IF w.score >= w.beta THEN [w EXCEPT !.pc = "aspiration", !.beta = INFINITY]
  ELSE [w EXCEPT !.pc = "adopt"]

\* after the aspiration call: stop, widen, or accept (184-194, 623-633)
WorkerAspirationCheck(t) ==
  /\ t \in ThreadIds
  /\ workers[t].pc = "aspiration_check"
  /\ LET w == workers[t] IN
     workers' = [workers EXCEPT ![t] =
       IF stop_search THEN [w EXCEPT !.pc = "adopt"]
       ELSE AspirationWiden(w)]
  /\ UNCHANGED <<boardVars, options, game_seed, stop_search, tt, engine, coordinator,
                 uci_board, script, arrived, lines_read, output, results>>

\* `if !stop && self.best_move.is_some() { best_move = self.best_move; ...`
\* (197-198, 636-637)
WorkerAdopt(t) ==
  /\ t \in ThreadIds
  /\ workers[t].pc = "adopt"
  /\ LET w == workers[t] IN
     workers' = [workers EXCEPT ![t] =
       IF ~stop_search /\ w.best_move # NoneMove
       THEN [w EXCEPT !.pc = "research", !.local_best_move = w.best_move,
                      !.move_cut = w.self_move_cut]
       ELSE [w EXCEPT !.pc = "loop", !.current_depth = w.current_depth + 1]]
  /\ UNCHANGED <<boardVars, options, game_seed, stop_search, tt, engine, coordinator,
                 uci_board, script, arrived, lines_read, output, results>>

WorkerStep(t) ==
  \/ WorkerEnter(t)
  \/ WorkerReturn(t)
  \/ WorkerLoopHead(t)
  \/ WorkerAspirationCheck(t)
  \/ WorkerAdopt(t)

\* the text 0000
NullMoveText == <<"0", "0", "0", "0">>

\* the main thread is out of its loop: the coordinator sets the flag (656)
SetStop ==
  /\ coordinator.pc = "searching"
  /\ workers[0].pc = "done"
  /\ stop_search' = TRUE
  /\ coordinator' = [coordinator EXCEPT !.pc = "joining",
                                        !.total_nodes = workers[0].nodes_searched]
  /\ UNCHANGED <<boardVars, options, game_seed, tt, engine, workers,
                 uci_board, script, arrived, lines_read, output, results>>

\* a join that does not wait for the helper
JoinReady_NoWait(w) == TRUE

\* handle.join() returns once the helper's closure has returned
JoinReady(w) == w.pc = "done"

\* the coordinator joins its next helper and compares results (660-669)
JoinHelper ==
  /\ coordinator.pc = "joining"
  /\ coordinator.join_next \in HelperIds
  /\ LET h == coordinator.join_next
         w == workers[h]
         main == workers[0]
         better == w.local_best_score > main.local_best_score
                   /\ w.local_best_move # NoneMove
     IN /\ JoinReady(w)
        /\ coordinator' = [coordinator EXCEPT !.join_next = h + 1,
                                              !.total_nodes = @ + w.nodes_searched,
                                              !.adopted = IF better THEN h ELSE @]
        /\ workers' = [workers EXCEPT
             ![h] = [w EXCEPT !.pc = IF w.pc = "done" THEN "joined" ELSE w.pc],
             ![0] = IF better
                    THEN [main EXCEPT !.local_best_move = w.local_best_move,
                                      !.local_best_score = w.local_best_score,
                                      !.move_cut = w.move_cut,
                                      !.score_cut = w.score_cut]
                    ELSE main]
  /\ UNCHANGED <<boardVars, options, game_seed, stop_search, tt, engine,
                 uci_board, script, arrived, lines_read, output, results>>

\* search returns (671-679)
SearchReturn ==
  /\ coordinator.pc = "joining"
  /\ coordinator.join_next \notin HelperIds
  /\ coordinator' = [coordinator EXCEPT !.pc = "returned"]
  /\ engine' = [engine EXCEPT
                  !.nodes_searched = coordinator.total_nodes,
                  !.best_move = workers[0].local_best_move,
                  !.pv = workers[0].local_best_move]
  /\ results' = Append(results,
       [board |-> workers[0].root, depth |-> coordinator.depth,
        num_threads |-> engine.num_threads,
        toggles |-> <<engine.use_tt, engine.use_null_move, engine.use_lmr>>,
        best_move |-> workers[0].local_best_move,
        score |-> workers[0].local_best_score,
        nodes |-> coordinator.total_nodes,
        reported |-> workers[0].reported,
        adopted |-> coordinator.adopted,
        main_completed |-> workers[0].completed_depth,
        adopted_completed |-> workers[coordinator.adopted].completed_depth,
        move_cut |-> workers[0].move_cut /\ workers[0].local_best_move # NoneMove,
        score_cut |-> workers[0].score_cut])
  /\ UNCHANGED <<boardVars, options, game_seed, stop_search, tt, workers,
                 uci_board, script, arrived, lines_read, output>>

\* the fallback printing the null Move (a1a1) when there is no legal move
FallbackBestMove_NullMove(legal_moves) ==
  IF legal_moves # <<>> THEN to_uci(legal_moves[1]) ELSE to_uci(NoMove)

\* the bestmove line when search found no move (465-471)
FallbackBestMove(legal_moves) ==
  IF legal_moves # <<>> THEN to_uci(legal_moves[1]) ELSE NullMoveText

\* cmd_go after search has returned: the bestmove line (457-472)
CmdGoReply ==
  /\ coordinator.pc = "returned"
  /\ coordinator' = [coordinator EXCEPT !.pc = "idle"]
  /\ output' = Append(output,
       [bestmove |-> IF engine.best_move # NoneMove
                     THEN to_uci(engine.best_move[1])
                     ELSE FallbackBestMove(game_legal_moves(uci_board)),
        board |-> uci_board])
  /\ UNCHANGED <<boardVars, options, game_seed, stop_search, tt, engine, workers,
                 uci_board, script, arrived, lines_read, results>>

\* run reads a stop line: cmd_stop, ParallelSearchEngine::stop
CmdStop ==
  /\ coordinator.pc = "idle"
  /\ lines_read < arrived
  /\ script[lines_read + 1].cmd = "stop"
  /\ lines_read' = lines_read + 1
  /\ stop_search' = TRUE
  /\ UNCHANGED <<boardVars, options, game_seed, tt, engine, coordinator, workers,
                 uci_board, script, arrived, output, results>>

\* the GUI's next line reaches stdin
LineArrives ==
  /\ arrived < Len(script)
  /\ arrived' = arrived + 1
  /\ UNCHANGED <<boardVars, options, game_seed, stop_search, tt, engine, coordinator, workers,
                 uci_board, script, lines_read, output, results>>

\* the threads a search of these sessions can have
AllThreadIds == UNION {0..(session.num_threads - 1) : session \in Sessions}

Init ==
  /\ board = from_fen(FenCastleEp)
  /\ undo_stack = <<>>
  /\ last = [op |-> "from_fen", mv |-> NoMove, pre |-> <<>>]
  /\ InitSearch

Next ==
  \/ LineArrives
  \/ CmdGo
  \/ CmdStop
  \/ \E t \in AllThreadIds : WorkerStep(t)
  \/ SetStop
  \/ JoinHelper
  \/ SearchReturn
  \/ CmdGoReply

Spec == Init /\ [][Next]_vars

\* the steps of a thread between its alphabeta calls
WorkerBetweenCalls(t) ==
  \/ WorkerEnter(t)
  \/ WorkerLoopHead(t)
  \/ WorkerAspirationCheck(t)
  \/ WorkerAdopt(t)

\* the thread is inside a root alphabeta call: exactly when WorkerReturn(t)
\* can happen, as alphabeta is total and the return changes the pc
InCall(t) ==
  /\ t \in ThreadIds
  /\ workers[t].pc \in {"depth1_call", "aspiration_call", "research_call"}

\* every spawned thread keeps running: weak fairness of each thread's steps,
\* that of WorkerReturn written out with InCall for its enabling condition
SpecFair ==
  /\ Spec
  /\ \A t \in AllThreadIds :
       /\ WF_vars(WorkerBetweenCalls(t))
       /\ ([]<>(~InCall(t)) \/ []<><<WorkerReturn(t)>>_vars)

\* C11: in every position produced by from_fen and then legal moves, each
\* castling right that is set has its king on e1 / e8 and its rook on the
\* corner square h1, a1, h8 or a8.
C11_CastlingRightsBacked ==
  /\ HasBit(board.castling_rights, CASTLE_WK)
       => board.squares[4] = WHITE_KING /\ board.squares[7] = WHITE_ROOK
  /\ HasBit(board.castling_rights, CASTLE_WQ)
       => board.squares[4] = WHITE_KING /\ board.squares[0] = WHITE_ROOK
  /\ HasBit(board.castling_rights, CASTLE_BK)
       => board.squares[60] = BLACK_KING /\ board.squares[63] = BLACK_ROOK
  /\ HasBit(board.castling_rights, CASTLE_BQ)
       => board.squares[60] = BLACK_KING /\ board.squares[56] = BLACK_ROOK

(***************************************************************************)
(* The board under alphabeta: besides make_move and unmake_move the search *)
(* makes null moves on it.  A null move is kept on undo_stack as an entry  *)
(* with the move NoMove, which no generator emits.                         *)
(***************************************************************************)
\* WorkerSearch::has_big_pieces on a Board
board_has_big_pieces(b) ==
  \E sq \in 0..63 :
    /\ b.squares[sq] # EMPTY
    /\ get_piece_color(b.squares[sq]) = (IF b.white_to_move THEN WHITE ELSE BLACK)
    /\ get_piece_type(b.squares[sq]) \in {KNIGHT, BISHOP, ROOK, QUEEN}

\* `board.white_to_move = !board.white_to_move;` (278, and again at 286)
board_null_move(b) == [b EXCEPT !.white_to_move = ~b.white_to_move]

\* the null move of alphabeta (275-279) at a node that is not the root and
\* was not itself reached by a null move (allow_null), for a remaining depth
\* of 3 or more with use_null_move on
NullMoveWithin(plies) ==
  /\ undo_stack # <<>>
  /\ Len(undo_stack) < plies
  /\ undo_stack[Len(undo_stack)].mv # NoMove
  \* the null move is tried when the node is entered, before its move loop
  /\ last.op = "make"
  /\ ~is_in_check(board)
  /\ board_has_big_pieces(board)
  /\ board' = board_null_move(board)
  /\ undo_stack' = Append(undo_stack,
       [mv |-> NoMove,
        undo |-> [captured_piece |-> EMPTY,
                  castling_rights |-> board.castling_rights,
                  en_passant_square |-> board.en_passant_square,
                  halfmove_clock |-> board.halfmove_clock,
                  moved_piece |-> EMPTY],
        pre |-> board])
  /\ last' = [op |-> "null", mv |-> NoMove, pre |-> <<>>]
  /\ UNCHANGED searchVars

NullMove == NullMoveWithin(MaxPlies)

\* the null-move search has returned: the side to move is flipped back (286)
NullMoveBack ==
  /\ undo_stack # <<>>
  /\ undo_stack[Len(undo_stack)].mv = NoMove
  /\ board' = board_null_move(board)
  /\ undo_stack' = SubSeq(undo_stack, 1, Len(undo_stack) - 1)
  /\ last' = [op |-> "null_back", mv |-> NoMove,
              pre |-> <<undo_stack[Len(undo_stack)].pre>>]
  /\ UNCHANGED searchVars

\* unmake_move of the innermost move, which is not a null move
UnmakeMadeMove ==
  /\ undo_stack # <<>>
  /\ undo_stack[Len(undo_stack)].mv # NoMove
  /\ UnmakeMove

NextSearchBoard == MakeMove \/ UnmakeMadeMove \/ NullMove \/ NullMoveBack

SpecSearchBoard == InitBoard /\ [][NextSearchBoard]_vars

\* C12: en_passant_square is non-none only if the move made immediately
\* before was a pawn advancing two ranks, and it is then the square the pawn
\* crossed; after any other move, a null move included, it is none.
C12_EnPassantOnlyAfterDoublePush ==
  board.en_passant_square # None =>
    /\ undo_stack # <<>>
    /\ LET top == undo_stack[Len(undo_stack)] IN
       /\ top.mv # NoMove
       /\ get_piece_type(top.pre.squares[top.mv.from_sq]) = PAWN
       /\ Abs(top.mv.to_sq - top.mv.from_sq) = 16
       /\ 2 * board.en_passant_square = top.mv.from_sq + top.mv.to_sq

(***************************************************************************)
(* The position command.  In SpecPosition `board` is the protocol's        *)
(* current position (UCIProtocol::board), and `last` is the last command:  *)
(* its op is "position", pre holds the position before the command, and    *)
(* cmd the command itself: [kind, fen, has_moves, moves], where fen is the *)
(* list of the arguments between `fen` and `moves` and each move is a text *)
(* of one-character strings.                                               *)
(***************************************************************************)
\* rnbqkbnr/pppppppp/8/8/8/8/PPPPPPPP/RNBQKBNR w KQkq - 0 1
STARTING_FEN ==
  <<<<"r", "n", "b", "q", "k", "b", "n", "r", "/",
      "p", "p", "p", "p", "p", "p", "p", "p", "/", "8", "/", "8", "/", "8", "/", "8", "/",
      "P", "P", "P", "P", "P", "P", "P", "P", "/",
      "R", "N", "B", "Q", "K", "B", "N", "R">>,
    <<"w">>, <<"K", "Q", "k", "q">>, <<"-">>, <<"0">>, <<"1">>>>

\* Board::new
BoardNew == from_fen(STARTING_FEN)

\* the promotion letter of parse_move (365-375)
PromotionOf(move_str) ==
  IF Len(move_str) = 5
  THEN CASE move_str[5] \in {"q", "Q"} -> QUEEN
         [] move_str[5] \in {"r", "R"} -> ROOK
         [] move_str[5] \in {"b", "B"} -> BISHOP
         [] move_str[5] \in {"n", "N"} -> KNIGHT
         [] OTHER -> 0
  ELSE 0

\* the first element of a sequence that satisfies Test, as an Option
FirstThat(seq, Test(_)) ==
  IF \E i \in 1..Len(seq) : Test(seq[i])
  THEN <<seq[CHOOSE i \in 1..Len(seq) :
               Test(seq[i]) /\ \A j \in 1..(i - 1) : ~Test(seq[j])]>>
  ELSE <<>>

\* UCIProtocol::parse_move
parse_move(b, move_str) ==
  IF Len(move_str) < 4 THEN NoneMove
  ELSE IF parse_square(SubSeq(move_str, 1, 2)) = None THEN NoneMove
  ELSE IF parse_square(SubSeq(move_str, 3, 4)) = None THEN NoneMove
  ELSE
    LET from_sq == parse_square(SubSeq(move_str, 1, 2))
        to_sq == parse_square(SubSeq(move_str, 3, 4))
        promotion == PromotionOf(move_str)
    IN Let(generate_legal_moves(b), LAMBDA legal_moves :
         LET matching == FirstThat(legal_moves, LAMBDA mv :
                           /\ mv.from_sq = from_sq /\ mv.to_sq = to_sq
                           /\ IF promotion # 0 THEN mv.promotion = promotion
                              ELSE mv.promotion = 0)
             \* "Fallback: return any matching move"
             fallback == FirstThat(legal_moves, LAMBDA mv :
                           mv.from_sq = from_sq /\ mv.to_sq = to_sq)
         IN IF matching # <<>> THEN matching ELSE fallback)

\* the loop over the moves of cmd_position (347-353)
RECURSIVE ApplyMoves(_, _)
ApplyMoves(b, moves) ==
  IF moves = <<>> THEN b
  ELSE Let(parse_move(b, Head(moves)), LAMBDA mv :
         Call2(ApplyMoves,
               IF mv # NoneMove THEN make_move(b, mv[1]).board ELSE b,
               Tail(moves)))

\* whether from_fen yields a board: for every text with at least one field
\* (board.rs 139-142 is its only `return None`)
from_fen_is_some(parts) == parts # <<>>

\* UCIProtocol::cmd_position: the position after the command
cmd_position(b, cmd) ==
  LET b1 == IF cmd.kind = "startpos" THEN BoardNew
            ELSE IF cmd.kind = "fen" /\ cmd.fen # <<>> /\ from_fen_is_some(cmd.fen)
            THEN from_fen(cmd.fen)
            ELSE b
  IN IF cmd.kind \in {"startpos", "fen"} /\ cmd.has_moves
     THEN Call2(ApplyMoves, b1, cmd.moves)
     ELSE b1

\* 4k3/8/8/8/8/8/4K3 w - - 0 1: seven ranks
FenSevenRanks ==
  <<<<"4", "k", "3", "/", "8", "/", "8", "/", "8", "/", "8", "/", "8", "/",
      "4", "K", "3">>,
    <<"w">>, <<"-">>, <<"-">>, <<"0">>, <<"1">>>>
\* 4k3/8/8/8/8/8/8/4X3 w - - 0 1: no piece has the letter X
FenUnknownLetter ==
  <<<<"4", "k", "3", "/", "8", "/", "8", "/", "8", "/", "8", "/", "8", "/", "8", "/",
      "4", "X", "3">>,
    <<"w">>, <<"-">>, <<"-">>, <<"0">>, <<"1">>>>
\* 4k3/8/8/8/8/8/8/4K3 x - - 0 1: the side to move is neither w nor b
FenBadSide ==
  <<<<"4", "k", "3", "/", "8", "/", "8", "/", "8", "/", "8", "/", "8", "/", "8", "/",
      "4", "K", "3">>,
    <<"x">>, <<"-">>, <<"-">>, <<"0">>, <<"1">>>>

MoveText(a, b, c, d) == <<a, b, c, d>>

PositionCommand(kind, fen, has_moves, moves) ==
  [kind |-> kind, fen |-> fen, has_moves |-> has_moves, moves |-> moves]

\* the position commands the GUI sends
PositionCommands ==
  { PositionCommand("startpos", <<>>, FALSE, <<>>),
    PositionCommand("startpos", <<>>, TRUE,
      <<MoveText("e", "2", "e", "4"), MoveText("e", "7", "e", "5")>>),
    \* e2e5 is no legal move after e2e4
    PositionCommand("startpos", <<>>, TRUE,
      <<MoveText("e", "2", "e", "4"), MoveText("e", "2", "e", "5"),
        MoveText("e", "7", "e", "5")>>),
    PositionCommand("startpos", <<>>, TRUE,
      <<MoveText("e", "2", "e", "5"), MoveText("g", "1", "f", "3")>>),
    PositionCommand("startpos", <<>>, TRUE, <<MoveText("g", "1", "f", "3")>>),
    PositionCommand("fen", FenCastleEp, FALSE, <<>>),
    PositionCommand("fen", FenCastleEp, TRUE,
      <<MoveText("e", "2", "e", "4"), MoveText("d", "4", "e", "3")>>),
    PositionCommand("fen", FenPromotion, TRUE, <<<<"a", "7", "b", "8", "q">>>>),
    PositionCommand("fen", FenSevenRanks, FALSE, <<>>),
    PositionCommand("fen", FenUnknownLetter, FALSE, <<>>),
    PositionCommand("fen", FenBadSide, FALSE, <<>>),
    PositionCommand("fen", <<>>, FALSE, <<>>) }

InitPosition ==
  /\ board = BoardNew
  /\ undo_stack = <<>>
  /\ last = [op |-> "new", mv |-> NoMove, pre |-> <<>>]
  /\ SearchAtRest

\* run reads a position line: cmd_position
CmdPosition ==
  /\ \E cmd \in PositionCommands :
       /\ board' = cmd_position(board, cmd)
       /\ last' = [op |-> "position", mv |-> NoMove, pre |-> <<board>>, cmd |-> cmd]
  /\ UNCHANGED <<undo_stack, searchVars>>

NextPosition == CmdPosition

SpecPosition == InitPosition /\ [][NextPosition]_vars

\* The FEN notation itself, to say which position texts are malformed: the
\* placement is eight ranks separated by "/", each of piece letters and the
\* digits 1..8 that add up to eight squares; the side is w or b; the
\* castling field is - or letters of KQkq; the en-passant field is - or a
\* square of rank 3 or 6.
RECURSIVE FenRanks(_)
FenRanks(text) ==
  IF \A i \in 1..Len(text) : text[i] # "/" THEN <<text>>
  ELSE LET i == CHOOSE k \in 1..Len(text) :
                  text[k] = "/" /\ \A j \in 1..(k - 1) : text[j] # "/"
       IN <<SubSeq(text, 1, i - 1)>> \o FenRanks(SubSeq(text, i + 1, Len(text)))
RECURSIVE FenRankWidth(_)
FenRankWidth(rank) ==
  IF rank = <<>> THEN 0
  ELSE (IF is_ascii_digit(Head(rank)) THEN to_digit(Head(rank)) ELSE 1)
       + FenRankWidth(Tail(rank))
WellFormedFen(parts) ==
  /\ Len(parts) >= 4
  /\ Len(FenRanks(parts[1])) = 8
  /\ \A r \in SeqRange(FenRanks(parts[1])) :
       /\ \A c \in SeqRange(r) :
            \/ is_ascii_digit(c) /\ to_digit(c) \in 1..8
            \/ ~is_ascii_digit(c) /\ fen_to_piece(c) # None
       /\ FenRankWidth(r) = 8
  /\ parts[2] \in {<<"w">>, <<"b">>}
  /\ \/ parts[3] = <<"-">>
     \/ parts[3] # <<>> /\ SeqRange(parts[3]) \subseteq {"K", "Q", "k", "q"}
  /\ \/ parts[4] = <<"-">>
     \/ /\ Len(parts[4]) = 2
        /\ parse_square(parts[4]) # None
        /\ parts[4][2] \in {"3", "6"}

\* C13: a position fen command whose position text is malformed is rejected:
\* from_fen yields none and the protocol's position is what it was before
\* the command.
C13_MalformedFenRejected ==
  (/\ last.op = "position"
   /\ last.cmd.kind = "fen"
   /\ ~WellFormedFen(last.cmd.fen))
  => /\ ~from_fen_is_some(last.cmd.fen)
     /\ board = last.pre[1]

\* the legal moves of b that are written as the text move_str
LegalMovesWritten(b, move_str) ==
  {mv \in SeqRange(generate_legal_moves(b)) : to_uci(mv) = move_str}

\* the position reached by the legal prefix of a list of move texts: the
\* moves up to the first text that is not a legal move
RECURSIVE AfterLegalPrefix(_, _)
AfterLegalPrefix(b, moves) ==
  IF moves = <<>> THEN b
  ELSE Let(LegalMovesWritten(b, Head(moves)), LAMBDA written :
         IF written = {} THEN b
         ELSE Call2(AfterLegalPrefix,
                    make_move(b, CHOOSE mv \in written : TRUE).board, Tail(moves)))

\* C14: when a moves list holds a text that is not a legal move in the
\* position reached so far, that move and every move after it are skipped:
\* the resulting position is the one the legal prefix of the list leads to.
C14_IllegalMoveEndsList ==
  (last.op = "position" /\ last.cmd.has_moves)
  => board = Call2(AfterLegalPrefix,
                   cmd_position(last.pre[1], [last.cmd EXCEPT !.has_moves = FALSE]),
                   last.cmd.moves)

(***************************************************************************)
(* The protocol loop with setoption and ucinewgame lines.                  *)
(***************************************************************************)
\* the words after `setoption`, as process_command splits the line
SetoptionLine(args) == [cmd |-> "setoption", depth |-> 0, args |-> args]
UcinewgameLine == [cmd |-> "ucinewgame", depth |-> 0]

\* cmd_setoption's parse of its words (256-271): the option's name and the
\* value as an Option
SetoptionName(args) ==
  LET stops == {i \in 2..Len(args) : args[i] = TextValue}
      last_name == IF stops = {} THEN Len(args)
                   ELSE (CHOOSE i \in stops : \A j \in stops : i <= j) - 1
  IN JoinWords(SubSeq(args, 2, last_name))
SetoptionValue(args) ==
  LET stops == {i \in 2..Len(args) : args[i] = TextValue}
      first == IF stops = {} THEN 0 ELSE CHOOSE i \in stops : \A j \in stops : i <= j
  IN IF stops = {} \/ first + 1 > Len(args) THEN <<>>
     ELSE <<JoinWords(SubSeq(args, first + 1, Len(args)))>>

\* the loop over the options (276-291): the first option of that name is set
\* if it is not a button and a value was given; clear_hash for the button
SetoptionFind(opts, name) ==
  IF \E i \in 1..Len(opts) : opts[i].name = name
  THEN CHOOSE i \in 1..Len(opts) :
         opts[i].name = name /\ \A j \in 1..(i - 1) : opts[j].name # name
  ELSE 0
SetoptionOptions(opts, args) ==
  LET i == SetoptionFind(opts, SetoptionName(args))
      value_str == SetoptionValue(args)
  IN IF i # 0 /\ opts[i].opt_type # "button" /\ value_str # <<>>
     THEN [opts EXCEPT ![i] = set_value(opts[i], value_str[1]).opt]
     ELSE opts
SetoptionClearHash(opts, args) ==
  LET i == SetoptionFind(opts, SetoptionName(args))
  IN i # 0 /\ opts[i].opt_type = "button" /\ opts[i].name = NameClearHash

OptionNamed(opts, name) == opts[SetoptionFind(opts, name)]

\* num_cpus::get(): init_options keeps it as the default of Threads
NumCpusOf(opts) == get_int([value |-> OptionNamed(opts, NameThreads).default])

\* ParallelSearchEngine::set_threads
set_threads(e, threads, num_cpus) ==
  [e EXCEPT !.num_threads = IF threads = 0 THEN num_cpus ELSE Max(threads, 1)]

\* apply_options: Threads is set on the engine at hand, Hash makes a new
\* engine with that many threads (its table is new and empty, its stop flag
\* clear), and the three toggles are set on the new engine
apply_options(opts, e) ==
  LET threaded == set_threads(e, get_int(OptionNamed(opts, NameThreads)), NumCpusOf(opts))
  IN [EngineNew(threaded.num_threads) EXCEPT
        !.use_tt = get_bool(OptionNamed(opts, NameUseTranspositionTable)),
        !.use_null_move = get_bool(OptionNamed(opts, NameUseNullMove)),
        !.use_lmr = get_bool(OptionNamed(opts, NameUseLMR))]

\* run reads a setoption line: cmd_setoption
CmdSetoption ==
  /\ coordinator.pc = "idle"
  /\ lines_read < arrived
  /\ script[lines_read + 1].cmd = "setoption"
  /\ lines_read' = lines_read + 1
  /\ LET args == script[lines_read + 1].args IN
       /\ last' = [op |-> "setoption", mv |-> NoMove, pre |-> <<options>>, args |-> args,
                   pre_tt |-> tt,
                   clear_hash |-> Len(args) >= 2 /\ args[1] = TextName
                                  /\ SetoptionClearHash(options, args)]
       /\ IF Len(args) < 2 \/ args[1] # TextName
          THEN UNCHANGED <<options, engine, tt, stop_search>>
          ELSE /\ options' = SetoptionOptions(options, args)
               /\ engine' = apply_options(SetoptionOptions(options, args), engine)
               \* the old table, cleared by the button or not, goes with the
               \* old engine
               /\ tt' = TTNew
               /\ stop_search' = FALSE
  /\ UNCHANGED <<board, undo_stack, game_seed, coordinator, workers,
                 uci_board, script, arrived, output, results>>

\* run reads a ucinewgame line: cmd_ucinewgame
CmdUcinewgame ==
  /\ coordinator.pc = "idle"
  /\ lines_read < arrived
  /\ script[lines_read + 1].cmd = "ucinewgame"
  /\ lines_read' = lines_read + 1
  /\ uci_board' = game_from_fen(0, 0)
  /\ tt' = TTClear(tt)
  /\ last' = [op |-> "ucinewgame", mv |-> NoMove, pre |-> <<>>, pre_tt |-> tt]
  /\ UNCHANGED <<board, undo_stack, options, game_seed, stop_search, engine,
                 coordinator, workers, script, arrived, output, results>>

\* the setoption lines of the sessions
\* setoption name Threads value 2
Setoption1 == SetoptionLine(<<<<"n", "a", "m", "e">>, <<"T", "h", "r", "e", "a", "d", "s">>, <<"v", "a", "l", "u", "e">>, <<"2">>>>)
\* setoption name Threads value 0
Setoption2 == SetoptionLine(<<<<"n", "a", "m", "e">>, <<"T", "h", "r", "e", "a", "d", "s">>, <<"v", "a", "l", "u", "e">>, <<"0">>>>)
\* setoption name Threads value 257
Setoption3 == SetoptionLine(<<<<"n", "a", "m", "e">>, <<"T", "h", "r", "e", "a", "d", "s">>, <<"v", "a", "l", "u", "e">>, <<"2", "5", "7">>>>)
\* setoption name Threads value two
Setoption4 == SetoptionLine(<<<<"n", "a", "m", "e">>, <<"T", "h", "r", "e", "a", "d", "s">>, <<"v", "a", "l", "u", "e">>, <<"t", "w", "o">>>>)
\* setoption name Depth value +5
Setoption5 == SetoptionLine(<<<<"n", "a", "m", "e">>, <<"D", "e", "p", "t", "h">>, <<"v", "a", "l", "u", "e">>, <<"+", "5">>>>)
\* setoption name Depth value 31
Setoption6 == SetoptionLine(<<<<"n", "a", "m", "e">>, <<"D", "e", "p", "t", "h">>, <<"v", "a", "l", "u", "e">>, <<"3", "1">>>>)
\* setoption name Hash value
Setoption7 == SetoptionLine(<<<<"n", "a", "m", "e">>, <<"H", "a", "s", "h">>, <<"v", "a", "l", "u", "e">>>>)
\* setoption name UseNullMove value false
Setoption8 == SetoptionLine(<<<<"n", "a", "m", "e">>, <<"U", "s", "e", "N", "u", "l", "l", "M", "o", "v", "e">>, <<"v", "a", "l", "u", "e">>, <<"f", "a", "l", "s", "e">>>>)
\* setoption name UseNullMove value banana
Setoption9 == SetoptionLine(<<<<"n", "a", "m", "e">>, <<"U", "s", "e", "N", "u", "l", "l", "M", "o", "v", "e">>, <<"v", "a", "l", "u", "e">>, <<"b", "a", "n", "a", "n", "a">>>>)
\* setoption name UseLMR value TRUE
Setoption10 == SetoptionLine(<<<<"n", "a", "m", "e">>, <<"U", "s", "e", "L", "M", "R">>, <<"v", "a", "l", "u", "e">>, <<"T", "R", "U", "E">>>>)
\* setoption name UseLMR value 1
Setoption11 == SetoptionLine(<<<<"n", "a", "m", "e">>, <<"U", "s", "e", "L", "M", "R">>, <<"v", "a", "l", "u", "e">>, <<"1">>>>)
\* setoption name UseTranspositionTable value false
Setoption12 == SetoptionLine(<<<<"n", "a", "m", "e">>, <<"U", "s", "e", "T", "r", "a", "n", "s", "p", "o", "s", "i", "t", "i", "o", "n", "T", "a", "b", "l", "e">>, <<"v", "a", "l", "u", "e">>, <<"f", "a", "l", "s", "e">>>>)
\* setoption name Clear Hash
Setoption13 == SetoptionLine(<<<<"n", "a", "m", "e">>, <<"C", "l", "e", "a", "r">>, <<"H", "a", "s", "h">>>>)
\* setoption name Contempt value 3
Setoption14 == SetoptionLine(<<<<"n", "a", "m", "e">>, <<"C", "o", "n", "t", "e", "m", "p", "t">>, <<"v", "a", "l", "u", "e">>, <<"3">>>>)
\* setoption Threads value 2
Setoption15 == SetoptionLine(<<<<"T", "h", "r", "e", "a", "d", "s">>, <<"v", "a", "l", "u", "e">>, <<"2">>>>)

SetoptionLines ==
  {Setoption1, Setoption2, Setoption3, Setoption4, Setoption5,
   Setoption6, Setoption7, Setoption8, Setoption9, Setoption10,
   Setoption11, Setoption12, Setoption13, Setoption14, Setoption15}

\* the sessions: one setoption line and a search; the three toggles switched
\* off and a search; a search, then ucinewgame or the Clear Hash button, and
\* another search; a second thread asked for, a search and a stop
OptionSessions ==
  { <<line, GoLine(2)>> : line \in SetoptionLines }
  \cup { <<Setoption12, Setoption8, SetoptionLine(<<TextName, NameUseLMR, TextValue, TextFalse>>),
           GoLine(depth)>> : depth \in 1..3 }
  \cup { <<GoLine(2), UcinewgameLine, GoLine(1)>>,
         <<GoLine(2), Setoption13, GoLine(1)>>,
         <<GoLine(2), Setoption10, GoLine(1)>>,
         <<GoLine(2), Setoption1, GoLine(1)>>,
         <<Setoption1, GoLine(1), StopLine>> }

InitSession ==
  /\ board = from_fen(FenCastleEp)
  /\ undo_stack = <<>>
  /\ last = [op |-> "new", mv |-> NoMove, pre |-> <<>>]
  /\ game_seed \in 0..MaxSeed
  /\ stop_search = FALSE
  /\ tt = TTNew
  /\ engine = EngineNew(1)
  /\ options = init_options(1)
  /\ script \in OptionSessions
  /\ coordinator = CoordinatorIdle
  /\ workers = <<>>
  /\ uci_board \in RootBoards
  /\ arrived = 0
  /\ lines_read = 0
  /\ output = <<>>
  /\ results = <<>>

NextSession ==
  \/ Next
  \/ CmdSetoption
  \/ CmdUcinewgame

SpecSession == InitSession /\ [][NextSession]_vars

\* a text a spin option of that range, or a check option, can be set to
IsDecimalText(text) ==
  LET digits == IF text # <<>> /\ Head(text) \in {"+", "-"} THEN Tail(text) ELSE text
  IN digits # <<>> /\ Len(digits) <= 9
     /\ \A i \in 1..Len(digits) : is_ascii_digit(digits[i])
DecimalTextValue(text) ==
  IF Head(text) = "-" THEN 0 - DecimalValue(Tail(text), 0)
  ELSE IF Head(text) = "+" THEN DecimalValue(Tail(text), 0)
  ELSE DecimalValue(text, 0)
ValidOptionValue(opt, text) ==
  CASE opt.opt_type = "spin" ->
         /\ IsDecimalText(text)
         /\ DecimalTextValue(text) >= opt.min[1]
         /\ DecimalTextValue(text) <= opt.max[1]
    [] opt.opt_type = "check" -> to_lowercase(text) \in {TextTrue, TextFalse}
    [] OTHER -> FALSE

\* the setoption line read last named the i-th option and gave it this value
SetoptionGave(i, text) ==
  /\ last.op = "setoption"
  /\ Len(last.args) >= 2 /\ last.args[1] = TextName
  /\ SetoptionFind(last.pre[1], SetoptionName(last.args)) = i
  /\ SetoptionValue(last.args) = <<text>>

\* C15: a setoption whose value is outside the option's declared range, or
\* is not a value of the option's type, is ignored: the option keeps the
\* value it had before the command, for spin and for check options alike.
C15_InvalidValueIgnored ==
  \A i \in 1..Len(options) :
    last.op = "setoption" =>
      \A value_str \in {SetoptionValue(last.args)} :
        (value_str # <<>> /\ SetoptionGave(i, value_str[1])
         /\ options[i].opt_type \in {"spin", "check"}
         /\ ~ValidOptionValue(last.pre[1][i], value_str[1]))
        => options[i].value = last.pre[1][i].value

\* the same for the spin options only
C15_InvalidSpinIgnored ==
  \A i \in 1..Len(options) :
    last.op = "setoption" =>
      \A value_str \in {SetoptionValue(last.args)} :
        (value_str # <<>> /\ SetoptionGave(i, value_str[1])
         /\ options[i].opt_type = "spin"
         /\ ~ValidOptionValue(last.pre[1][i], value_str[1]))
        => options[i].value = last.pre[1][i].value

(***************************************************************************)
(* The shared table under the stores and probes of the workers.  The mutex *)
(* makes each store, probe and clear one step.                             *)
(***************************************************************************)
\* the keys stored and probed: every bucket and two keys that share a
\* bucket with another; the depths stored, and the score stored with each
TableKeys == 0..(TTSize + 1)
TableDepths == 1..MaxTableDepth
TableScore(hash_key, depth) == 35 * depth - 10 * hash_key

InitTable ==
  /\ board = BoardNew
  /\ undo_stack = <<>>
  /\ last = [op |-> "new", mv |-> NoMove, pre |-> <<>>]
  /\ SearchAtRest

\* a worker stores
TableStore ==
  /\ tt.hits + tt.writes < MaxTableOps
  /\ \E hash_key \in TableKeys, depth \in TableDepths :
       /\ tt' = TTStore(tt, hash_key, depth, TableScore(hash_key, depth),
                        TT_EXACT, NoneMove)
       /\ last' = [op |-> "store", mv |-> NoMove, pre |-> <<tt>>,
                   hash_key |-> hash_key, depth |-> depth,
                   score |-> TableScore(hash_key, depth),
                   found |-> <<>>]
  /\ UNCHANGED <<board, undo_stack, options, game_seed, stop_search, engine,
                 coordinator, workers, uci_board, script, arrived, lines_read,
                 output, results>>

\* a worker probes
TableProbe ==
  /\ tt.hits + tt.writes < MaxTableOps
  /\ \E hash_key \in TableKeys :
       /\ tt' = TTProbe(tt, hash_key).tt
       /\ last' = [op |-> "probe", mv |-> NoMove, pre |-> <<tt>>,
                   hash_key |-> hash_key, depth |-> 0, score |-> 0,
                   found |-> TTProbe(tt, hash_key).entry]
  /\ UNCHANGED <<board, undo_stack, options, game_seed, stop_search, engine,
                 coordinator, workers, uci_board, script, arrived, lines_read,
                 output, results>>

\* clear_tt
TableClear ==
  /\ tt' = TTClear(tt)
  /\ last' = [op |-> "clear", mv |-> NoMove, pre |-> <<tt>>,
              hash_key |-> 0, depth |-> 0, score |-> 0, found |-> <<>>]
  /\ UNCHANGED <<board, undo_stack, options, game_seed, stop_search, engine,
                 coordinator, workers, uci_board, script, arrived, lines_read,
                 output, results>>

NextTable == TableStore \/ TableProbe \/ TableClear

SpecTable == InitTable /\ [][NextTable]_vars

\* the last step was a store into a bucket that held an entry
StoreIntoOccupied ==
  /\ last.op = "store"
  /\ TTIndex(last.hash_key) \in DOMAIN last.pre[1].table
Incumbent == last.pre[1].table[TTIndex(last.hash_key)]
StoredEntry ==
  [hash_key |-> last.hash_key, depth |-> last.depth, score |-> last.score,
   flag |-> TT_EXACT, best_move |-> NoneMove]

\* C16: on a store into an occupied bucket the incumbent is replaced if its
\* depth is lower than the new entry's depth or if its hash differs from
\* the new hash; a store whose hash matches the incumbent updates the entry.
C16_ReplacementPolicy ==
  (StoreIntoOccupied
   /\ (Incumbent.depth < last.depth \/ Incumbent.hash_key # last.hash_key))
  => tt.table[TTIndex(last.hash_key)] = StoredEntry

\* the part of it the table keeps: a deeper or equally deep entry, and an
\* entry of the same hash, replace the incumbent
C16_DeeperOrSameHashReplaces ==
  (StoreIntoOccupied
   /\ (Incumbent.depth <= last.depth \/ Incumbent.hash_key = last.hash_key))
  => tt.table[TTIndex(last.hash_key)] = StoredEntry

\* C17: probe(h) returns an entry only if the entry's stored full key is h;
\* a key that shares the bucket with h never makes the probe return what was
\* stored for that key.
C17_ProbeMatchesFullKey ==
  (last.op = "probe" /\ last.found # <<>>)
  => /\ last.found[1].hash_key = last.hash_key
     /\ last.found[1] = last.pre[1].table[TTIndex(last.hash_key)]

\* a probe of a key whose bucket holds the entry of another key
C17_Witness ==
  /\ last.op = "probe"
  /\ TTIndex(last.hash_key) \in DOMAIN last.pre[1].table
  /\ last.pre[1].table[TTIndex(last.hash_key)].hash_key # last.hash_key
  /\ last.found = <<>>

\* a probe that hits after the bucket was taken over from another key
C17_WitnessHit ==
  /\ last.op = "probe"
  /\ last.found # <<>>
  /\ last.found[1].hash_key = last.hash_key
  /\ last.hash_key >= TTSize

\* the line read last is ucinewgame, or the Clear Hash button, and no line
\* has been read since
JustCleared ==
  /\ lines_read >= 1
  /\ \/ script[lines_read].cmd = "ucinewgame"
     \/ /\ script[lines_read].cmd = "setoption"
        /\ last.op = "setoption" /\ last.clear_hash

\* C18: after ucinewgame, and after the Clear Hash button, the table the next
\* search uses holds no entries: a probe of any hash misses until the next
\* store, and the hit and write counters are 0.
C18_ClearedTableIsEmpty ==
  JustCleared =>
    /\ DOMAIN tt.table = {}
    /\ tt.hits = 0 /\ tt.writes = 0
    /\ \A pos \in 1..Len(GamePositions) : TTProbe(tt, pos - 1).entry = <<>>

\* ucinewgame read after a search that left entries in the table
C18_Witness ==
  /\ JustCleared
  /\ script[lines_read].cmd = "ucinewgame"
  /\ last.op = "ucinewgame"
  /\ DOMAIN last.pre_tt.table # {}
  /\ last.pre_tt.writes > 0

\* the Clear Hash button pressed after a search that left entries
C18_WitnessButton ==
  /\ JustCleared
  /\ script[lines_read].cmd = "setoption"
  /\ DOMAIN last.pre_tt.table # {}

\* the largest number of a set
MaxOf(S) == CHOOSE x \in S : \A y \in S : x >= y

\* the value of a leaf of the tree: the static evaluation, or the better of
\* it and the captures below it (quiescence without a window)
RECURSIVE NaiveQuiescence(_)
NaiveQuiescence(p) ==
  Let({evaluate(p)} \cup
      {-Call1(NaiveQuiescence, game_make_move(p, QuiescenceMoves(p)[i])) :
         i \in 1..Len(QuiescenceMoves(p))},
      LAMBDA values : MaxOf(values))

\* the naive negamax value of the legal tree of depth `depth` below p: no
\* window, no table, no pruning, no extension, no draw score; a position
\* without a legal move is worth what alphabeta gives it (256-258), a leaf
\* is worth its quiescence value
RECURSIVE NaiveNegamax(_, _, _)
NaiveNegamax(p, depth, ply) ==
  IF game_legal_moves(p) = <<>>
  THEN IF game_in_check(p) THEN -MATE_SCORE + ply ELSE 0
  ELSE IF depth <= 0 THEN NaiveQuiescence(p)
  ELSE Let({-Call3(NaiveNegamax, game_make_move(p, game_legal_moves(p)[i]),
                   depth - 1, ply + 1) :
              i \in 1..Len(game_legal_moves(p))},
           LAMBDA values : MaxOf(values))

\* the searches of one thread with the table, the null move and LMR off
NaiveSearches ==
  {i \in 1..Len(results) :
     results[i].num_threads = 1 /\ results[i].toggles = <<FALSE, FALSE, FALSE>>}

\* C19: with one thread and the transposition-table, null-move and LMR
\* toggles all off, the score search returns at depth d is the naive negamax
\* value of the depth-d legal move tree with the same leaf values, for every
\* position and depth.
C19_ScoreIsNaiveNegamax ==
  \A i \in NaiveSearches :
    results[i].score = Call3(NaiveNegamax, results[i].board, results[i].depth, 0)

\* negamax without a window that scores draws and extends checks the way
\* alphabeta does (219-230, 250-251)
RECURSIVE ExtendedNegamax(_, _, _, _)
ExtendedNegamax(p, depth, ply, is_root) ==
  IF ~is_root /\ (is_fifty_moves(p) \/ is_repetition(p)) THEN -CONTEMPT
  ELSE IF ~is_root /\ game_insufficient_material(p) THEN -CONTEMPT
  ELSE IF ~is_root /\ repetition_count(p) >= 2 THEN -CONTEMPT * 2
  ELSE IF game_legal_moves(p) = <<>>
  THEN IF game_in_check(p) THEN -MATE_SCORE + ply ELSE 0
  ELSE Let(IF game_in_check(p) THEN depth + CHECK_EXTENSION ELSE depth, LAMBDA d :
         IF d <= 0 THEN NaiveQuiescence(p)
         ELSE Let({-Call4(ExtendedNegamax, game_make_move(p, game_legal_moves(p)[i]),
                          d - 1, ply + 1, FALSE) :
                     i \in 1..Len(game_legal_moves(p))},
                  LAMBDA values : MaxOf(values)))

\* what the searches with the toggles off do return, when the root has a
\* legal move
C19_ScoreIsExtendedNegamax ==
  \A i \in NaiveSearches :
    game_legal_moves(results[i].board) # <<>> =>
      results[i].score =
        Call4(ExtendedNegamax, results[i].board, results[i].depth, 0, TRUE)

(***************************************************************************)
(* uci.rs: perft.                                                          *)
(***************************************************************************)
RECURSIVE perft(_, _)
RECURSIVE PerftLoop(_, _, _, _, _)

\* a loop that leaves the moves it made on the board
RECURSIVE PerftLoop_NoUnmake(_, _, _, _, _)
PerftLoop_NoUnmake(b, moves, lo, hi, depth) ==
  IF lo > hi THEN [nodes |-> 0, board |-> b]
  ELSE IF lo = hi
  THEN Let(make_move(b, moves[lo]), LAMBDA made :
         Call2(perft, made.board, depth - 1))
  ELSE Let(Call5(PerftLoop_NoUnmake, b, moves, lo, (lo + hi) \div 2, depth), LAMBDA first :
       Let(Call5(PerftLoop_NoUnmake, first.board, moves, ((lo + hi) \div 2) + 1, hi, depth),
           LAMBDA second :
             [nodes |-> first.nodes + second.nodes, board |-> second.board]))

\* the loop of perft (529-533) over the moves lo..hi, entered with board b:
\* the nodes it adds and the board as its unmake_move calls leave it.  The
\* iterations follow one another; they are composed by halves
PerftLoop(b, moves, lo, hi, depth) ==
  IF lo > hi THEN [nodes |-> 0, board |-> b]
  ELSE IF lo = hi
  THEN Let(make_move(b, moves[lo]), LAMBDA made :
       Let(Call2(perft, made.board, depth - 1), LAMBDA r :
         [nodes |-> r.nodes, board |-> unmake_move(r.board, moves[lo], made.undo)]))
  ELSE Let(Call5(PerftLoop, b, moves, lo, (lo + hi) \div 2, depth), LAMBDA first :
       Let(Call5(PerftLoop, first.board, moves, ((lo + hi) \div 2) + 1, hi, depth),
           LAMBDA second :
             [nodes |-> first.nodes + second.nodes, board |-> second.board]))

\* perft: the number it returns and the board it leaves to its caller
perft(b, depth) ==
  IF depth = 0 THEN [nodes |-> 1, board |-> b]
  ELSE Let(generate_legal_moves(b), LAMBDA moves :
         IF depth = 1 THEN [nodes |-> Len(moves), board |-> b]
         ELSE Call5(PerftLoop, b, moves, 1, Len(moves), depth))

\* the depth a perft line asks for: as the first command of a session, on
\* the starting position, any depth up to three plies
PerftDepths ==
  IF last.op = "new" THEN 1..3 ELSE 1..MaxPerftDepth

\* run reads a perft line: cmd_perft counts on a clone of the board and
\* prints the number
CmdPerft ==
  /\ \E depth \in PerftDepths :
     \E r \in {Call2(perft, board, depth)} :
       last' = [op |-> "perft", mv |-> NoMove, pre |-> <<board>>, depth |-> depth,
                nodes |-> r.nodes, after |-> r.board]
  /\ UNCHANGED <<board, undo_stack, searchVars>>

NextPerft == CmdPosition \/ CmdPerft

SpecPerft == InitPosition /\ [][NextPerft]_vars

\* the number of leaves of the full tree of legal moves of depth n below b
RECURSIVE LeafCount(_, _)
RECURSIVE LeafCountOver(_, _, _, _, _)
LeafCountOver(b, moves, lo, hi, n) ==
  IF lo > hi THEN 0
  ELSE IF lo = hi THEN Call2(LeafCount, make_move(b, moves[lo]).board, n - 1)
  ELSE Let(Call5(LeafCountOver, b, moves, lo, (lo + hi) \div 2, n), LAMBDA first :
         first + Call5(LeafCountOver, b, moves, ((lo + hi) \div 2) + 1, hi, n))
LeafCount(b, n) ==
  IF n = 0 THEN 1
  ELSE Let(generate_legal_moves(b), LAMBDA moves :
         Call5(LeafCountOver, b, moves, 1, Len(moves), n))

\* the published counts for the starting position, depths 1 to 3
PublishedCounts == <<20, 400, 8902>>

C20_WitnessAfterMoves ==
  /\ last.op = "perft"
  /\ last.pre[1] # BoardNew
  /\ last.pre[1].squares[28] = WHITE_PAWN /\ last.pre[1].squares[36] = BLACK_PAWN
  /\ last.nodes > 0

(***************************************************************************)
(* board.rs: to_fen, and the position texts read and written.  A text is   *)
(* the list of its whitespace-separated fields, each a sequence of         *)
(* one-character strings; to_fen writes its six fields with one space      *)
(* between them.                                                           *)
(***************************************************************************)
\* types.rs piece_to_fen, as an Option
piece_to_fen(piece) ==
  CASE piece = WHITE_PAWN -> <<"P">>
    [] piece = WHITE_KNIGHT -> <<"N">>
    [] piece = WHITE_BISHOP -> <<"B">>
    [] piece = WHITE_ROOK -> <<"R">>
    [] piece = WHITE_QUEEN -> <<"Q">>
    [] piece = WHITE_KING -> <<"K">>
    [] piece = BLACK_PAWN -> <<"p">>
    [] piece = BLACK_KNIGHT -> <<"n">>
    [] piece = BLACK_BISHOP -> <<"b">>
    [] piece = BLACK_ROOK -> <<"r">>
    [] piece = BLACK_QUEEN -> <<"q">>
    [] piece = BLACK_KING -> <<"k">>
    [] OTHER -> <<>>

\* the inner loop of to_fen over the files of one rank (221-237)
RECURSIVE RankText(_, _, _, _)
RankText(squares, rank, file, empty_count) ==
  IF file = 8
  THEN IF empty_count > 0 THEN NatToText(empty_count) ELSE <<>>
  ELSE LET piece == squares[rank * 8 + file] IN
       IF piece = EMPTY THEN RankText(squares, rank, file + 1, empty_count + 1)
       ELSE (IF empty_count > 0 THEN NatToText(empty_count) ELSE <<>>)
            \o piece_to_fen(piece) \o RankText(squares, rank, file + 1, 0)

\* the outer loop of to_fen, ranks 8 down to 1 (219-241)
RECURSIVE PlacementText(_, _)
PlacementText(squares, rank) ==
  RankText(squares, rank, 0, 0)
  \o (IF rank > 0 THEN <<"/">> \o PlacementText(squares, rank - 1) ELSE <<>>)

\* the castling field of to_fen (248-256)
CastlingText(rights) ==
  IF rights = 0 THEN <<"-">>
  ELSE (IF HasBit(rights, CASTLE_WK) THEN <<"K">> ELSE <<>>)
       \o (IF HasBit(rights, CASTLE_WQ) THEN <<"Q">> ELSE <<>>)
       \o (IF HasBit(rights, CASTLE_BK) THEN <<"k">> ELSE <<>>)
       \o (IF HasBit(rights, CASTLE_BQ) THEN <<"q">> ELSE <<>>)

\* Board::to_fen: the six fields of the text it returns
to_fen(b) ==
  <<PlacementText(b.squares, 7),
    IF b.white_to_move THEN <<"w">> ELSE <<"b">>,
    CastlingText(b.castling_rights),
    IF b.en_passant_square >= 0 THEN square_name(b.en_passant_square) ELSE <<"-">>,
    NatToText(b.halfmove_clock),
    NatToText(b.fullmove_number)>>

\* 4k3/8/8/8/3pP3/8/8/4K3 b - e3 0 1: the pawn on e4 has just advanced two ranks
FenEpTarget ==
  <<<<"4", "k", "3", "/", "8", "/", "8", "/", "8", "/", "3", "p", "P", "3", "/", "8", "/", "8", "/", "4", "K", "3">>,
    <<"b">>, <<"-">>, <<"e", "3">>, <<"0">>, <<"1">>>>
\* r3k3/8/8/8/8/8/8/4K2R w qK - 3 9: the castling letters in another order
FenCastlingOrder ==
  <<<<"r", "3", "k", "3", "/", "8", "/", "8", "/", "8", "/", "8", "/", "8", "/", "8", "/", "4", "K", "2", "R">>,
    <<"w">>, <<"q", "K">>, <<"-">>, <<"3">>, <<"9">>>>
\* 4k3/8/8/8/8/8/8/4K3 b - - 07 12: a clock written with a leading zero
FenLeadingZero ==
  <<<<"4", "k", "3", "/", "8", "/", "8", "/", "8", "/", "8", "/", "8", "/", "8", "/", "4", "K", "3">>,
    <<"b">>, <<"-">>, <<"-">>, <<"0", "7">>, <<"1", "2">>>>
\* 4k3/8/8/8/8/8/8/4K3 w - - 0 65536: a fullmove number one above what a u16 holds
FenLargeFullmove ==
  <<<<"4", "k", "3", "/", "8", "/", "8", "/", "8", "/", "8", "/", "8", "/", "8", "/", "4", "K", "3">>,
    <<"w">>, <<"-">>, <<"-">>, <<"0">>, <<"6", "5", "5", "3", "6">>>>

\* the position texts handed to from_fen
FenTexts ==
  {FenCastleEp, FenPromotion, FenRightNoRook, FenEpTarget, FenCastlingOrder,
   FenLeadingZero, FenLargeFullmove}

(***************************************************************************)
(* The position as an object with its text form: a caller builds a         *)
(* position from a text (from_fen), makes and unmakes legal moves on it,   *)
(* and asks for its text (to_fen, as cmd_display does).  last keeps the    *)
(* text read or written, and for to_fen the text the position was read     *)
(* from when nothing happened in between.                                  *)
(***************************************************************************)
InitFen ==
  /\ \E text \in FenTexts :
       /\ board = from_fen(text)
       /\ last = [op |-> "from_fen", mv |-> NoMove, pre |-> <<>>, text |-> text]
  /\ undo_stack = <<>>
  /\ SearchAtRest

FromFen ==
  /\ \E text \in FenTexts :
       /\ board' = from_fen(text)
       /\ last' = [op |-> "from_fen", mv |-> NoMove, pre |-> <<board>>, text |-> text]
  /\ undo_stack' = <<>>
  /\ UNCHANGED searchVars

ToFen ==
  /\ last.op # "to_fen"
  /\ last' = [op |-> "to_fen", mv |-> NoMove, pre |-> <<board>>,
              text |-> to_fen(board),
              source |-> IF last.op = "from_fen" THEN <<last.text>> ELSE <<>>]
  /\ UNCHANGED <<board, undo_stack, searchVars>>

\* a move of the game between two texts
FenMake == MakeMoveWithin(MaxFenPlies)

NextFen == FromFen \/ ToFen \/ FenMake \/ UnmakeMove

SpecFen == InitFen /\ [][NextFen]_vars

\* a well-formed six-field position text: the four fields of the notation,
\* then two counters written as decimal numbers
IsNumberText(text) ==
  text # <<>> /\ \A i \in 1..Len(text) : is_ascii_digit(text[i])
WellFormedSixFields(parts) ==
  /\ Len(parts) = 6
  /\ WellFormedFen(parts)
  /\ IsNumberText(parts[5])
  /\ IsNumberText(parts[6])

\* two position texts say the same: the same squares, side, castling
\* letters (in any order), en-passant field and counters (as numbers)
SameFenMeaning(s, t) ==
  /\ from_fen(<<s[1]>>).squares = from_fen(<<t[1]>>).squares
  /\ s[2] = t[2]
  /\ SeqRange(s[3]) = SeqRange(t[3])
  /\ s[4] = t[4]
  /\ DecimalValue(s[5], 0) = DecimalValue(t[5], 0)
  /\ DecimalValue(s[6], 0) = DecimalValue(t[6], 0)

SameBoardFields(a, b) ==
  /\ a.squares = b.squares
  /\ a.white_to_move = b.white_to_move
  /\ a.castling_rights = b.castling_rights
  /\ a.en_passant_square = b.en_passant_square
  /\ a.halfmove_clock = b.halfmove_clock
  /\ a.fullmove_number = b.fullmove_number

\* the text to_fen wrote right after from_fen read a well-formed text
EmittedFromText ==
  /\ last.op = "to_fen"
  /\ last.source # <<>>
  /\ WellFormedSixFields(last.source[1])

\* C21 (second half): for every board state, from_fen of the text to_fen
\* wrote has the same squares, side, castling rights, en-passant square and
\* counters.
C21_BoardRoundTrip ==
  last.op = "to_fen" => SameBoardFields(from_fen(last.text), board)

\* C21: for every well-formed six-field position text, from_fen followed
\* by to_fen yields the same placement, side to move, castling field,
\* en-passant field, halfmove clock and fullmove number as the input; and
\* for every board state, to_fen followed by from_fen reproduces the same
\* squares, side, castling rights, en-passant square and counters.
C21_FenRoundTrip ==
  /\ EmittedFromText => SameFenMeaning(last.text, last.source[1])
  /\ C21_BoardRoundTrip

\* C21 for the texts whose counters a u16 holds
C21_FenRoundTripU16 ==
  (/\ EmittedFromText
   /\ DecimalValue(last.source[1][5], 0) <= 65535
   /\ DecimalValue(last.source[1][6], 0) <= 65535)
  => SameFenMeaning(last.text, last.source[1])

C21_WitnessReordered ==
  /\ EmittedFromText
  /\ last.source[1] = FenCastlingOrder
  /\ last.text[3] = <<"K", "q">>

(***************************************************************************)
(* alphabeta at a non-root node.  The position is reached from a root by   *)
(* moves, so that its position_history and halfmove clock are those        *)
(* make_move builds; the node is then searched as the move loop of its     *)
(* parent searches it: not as root, at ply >= 1, with the depth left, a    *)
(* window, and the stop flag clear or set at entry.  last keeps the call   *)
(* and its value; tt is the table the call leaves.                         *)
(***************************************************************************)
NodeClocks == {0, 98}
NodeWindows == {<<-INFINITY, INFINITY>>, <<-1, 0>>, <<-60, -40>>, <<100, 120>>}

InitNode ==
  /\ board = from_fen(FenCastleEp)
  /\ undo_stack = <<>>
  /\ last = [op |-> "new", mv |-> NoMove, pre |-> <<>>]
  /\ game_seed \in 0..MaxSeed
  /\ stop_search = FALSE
  /\ tt = TTNew
  /\ engine = EngineNew(1)
  /\ options = init_options(1)
  /\ coordinator = CoordinatorIdle
  /\ workers = <<>>
  /\ \E clock \in NodeClocks : uci_board = game_from_fen(0, clock)
  /\ script = <<>>
  /\ arrived = 0
  /\ lines_read = 0
  /\ output = <<>>
  /\ results = <<>>

\* a move is made on the way to the node (make_move)
NodeMake ==
  /\ last.op \in {"new", "node_make"}
  /\ Len(uci_board.position_history) <= MaxNodePlies
  /\ \E i \in 1..Len(game_legal_moves(uci_board)) :
       /\ uci_board' = game_make_move(uci_board, game_legal_moves(uci_board)[i])
       /\ last' = [op |-> "node_make", mv |-> game_legal_moves(uci_board)[i], pre |-> <<>>]
  /\ UNCHANGED <<board, undo_stack, game_seed, stop_search, tt, engine, coordinator,
                 workers, script, arrived, lines_read, output, results, options>>

\* alphabeta is called on the node, with the stop flag first seen set at
\* one of the loads `stops` and the table in use or not
NodeCallWith(op, depths, stops, toggles) ==
  /\ last.op \in (IF op = "alphabeta" THEN {"node_make"} ELSE {"node_make", "node_null"})
  /\ \E depth \in depths, window \in NodeWindows, stop_at \in stops,
        use_tt \in toggles :
     \E r \in {Call9(alphabeta,
                     CallContext([WorkerNew(0, engine, uci_board, depth)
                                    EXCEPT !.use_tt = use_tt], stop_at),
                     uci_board, depth, window[1], window[2],
                     Len(uci_board.position_history) - 1, FALSE,
                     hash_position(uci_board), last.op = "node_make")} :
       /\ tt' = r.cx.tt
       /\ last' = [op |-> op, mv |-> NoMove, pre |-> <<tt>>,
                   depth |-> depth, alpha |-> window[1], beta |-> window[2],
                   stopped |-> stop_at = 0, score |-> r.score,
                   nodes |-> r.cx.nodes_searched,
                   unsearched |-> r.cx.unsearched,
                   unsearched_unseen |-> r.cx.unsearched_unseen,
                   stored_none |-> r.cx.stored_none,
                   use_tt |-> use_tt, seen |-> r.cx.seen, stop_at |-> stop_at]
  /\ UNCHANGED <<board, undo_stack, game_seed, stop_search, engine, coordinator,
                 workers, uci_board, script, arrived, lines_read, output, results, options>>

\* the parent's move loop calls alphabeta on the node: the flag is clear
\* throughout, or set when the node is entered
NodeCall == NodeCallWith("alphabeta", 0..MaxNodeDepth, {-1, 0}, {TRUE})

\* the stop flag is set by another thread while the call is running
NodeCallInterrupted ==
  NodeCallWith("alphabeta_interrupted", 1..MaxInterruptedDepth, 1..MaxNodeStopAt, BOOLEAN)

\* the parent tries the null move (249-272): the node is the position with
\* the other side to move, searched with allow_null false
NodeNull ==
  /\ last.op = "node_make"
  /\ ~game_in_check(uci_board) /\ has_big_pieces(uci_board)
  /\ uci_board' = game_null_move(uci_board)
  /\ last' = [op |-> "node_null", mv |-> NoMove, pre |-> <<>>]
  /\ UNCHANGED <<board, undo_stack, game_seed, stop_search, tt, engine, coordinator,
                 workers, script, arrived, lines_read, output, results, options>>

NextNode == NodeMake \/ NodeCall \/ NodeNull \/ NodeCallInterrupted

SpecNode == InitNode /\ [][NextNode]_vars

\* how often the hash of the current position stands in the history,
\* the current position counted
Occurrences(b) ==
  Cardinality({i \in 1..Len(b.position_history) :
                 b.position_history[i] = hash_position(b)})

\* the draws of the rules at a node: fifty moves without a pawn move or a
\* capture, the third occurrence of the position, insufficient material
DrawByRule(b) ==
  \/ b.halfmove_clock >= 100
  \/ Occurrences(b) >= 3
  \/ game_insufficient_material(b)

\* alphabeta has returned from a node it did not leave at the stop check
NodeSearched == last.op = "alphabeta" /\ ~last.stopped

\* C24: whenever alphabeta scores a non-root node as a draw the side to
\* move could accept (fifty-move rule, repetition, insufficient material),
\* the score it returns is negative with magnitude exactly 25.
C24_DrawScoredMinus25 ==
  (NodeSearched /\ DrawByRule(uci_board)) => last.score = -25

C24_WitnessFifty ==
  /\ NodeSearched /\ uci_board.halfmove_clock >= 100
  /\ Occurrences(uci_board) = 1 /\ ~game_insufficient_material(uci_board)
  /\ last.score = -25
C24_WitnessRepetition ==
  /\ NodeSearched /\ uci_board.halfmove_clock < 100
  /\ Occurrences(uci_board) >= 3 /\ last.score = -25
C24_WitnessMaterial ==
  /\ NodeSearched /\ uci_board.halfmove_clock < 100
  /\ Occurrences(uci_board) = 1 /\ game_insufficient_material(uci_board)
  /\ last.score = -25
C24_Witness ==
  /\ NodeSearched /\ DrawByRule(uci_board) /\ last.score = -CONTEMPT
  /\ last.depth = MaxNodeDepth /\ last.alpha = -INFINITY

\* C27 as stated: at a non-root node whose current position hash already
\* appears twice earlier in the position history (three occurrences counting
\* the current one), alphabeta returns -2*CONTEMPT = -50; a position whose
\* hash appears only once earlier is not scored -50.
C27_ThirdOccurrenceMinus50 ==
  NodeSearched =>
    /\ Occurrences(uci_board) = 3 => last.score = -2 * CONTEMPT
    /\ Occurrences(uci_board) = 2 => last.score # -2 * CONTEMPT

\* C27: at a non-root node whose position hash appears exactly once earlier
\* in the position history (two occurrences counting the current one) and
\* that is no draw by the fifty-move rule or by insufficient material,
\* alphabeta returns -2*CONTEMPT = -50; a node whose hash appears twice
\* earlier (three occurrences) is scored -CONTEMPT = -25.
C27_SecondOccurrenceMinus50 ==
  NodeSearched =>
    /\ (/\ Occurrences(uci_board) = 2
        /\ uci_board.halfmove_clock < 100
        /\ ~game_insufficient_material(uci_board)) => last.score = -2 * CONTEMPT
    /\ Occurrences(uci_board) = 3 => last.score = -CONTEMPT

C27_Witness ==
  /\ NodeSearched
  /\ Occurrences(uci_board) = 2
  /\ uci_board.halfmove_clock < 100
  /\ last.score = -50

C27_WitnessThird ==
  /\ NodeSearched
  /\ Occurrences(uci_board) = 3
  /\ Len(uci_board.position_history) = 9
  /\ last.score = -25

(***************************************************************************)
(* The board under the search, three plies deep: alphabeta and quiescence  *)
(* make and unmake legal moves, and alphabeta makes its null move at a     *)
(* node below the root.  The roots are positions the position command has  *)
(* set up from a text.                                                     *)
(***************************************************************************)
\* kn6/8/8/8/8/8/3PP3/K7 w - - 0 1: after a double push of one pawn the other stands beside the crossed square
FenNullThenEp ==
  <<<<"k", "n", "6", "/", "8", "/", "8", "/", "8", "/", "8", "/", "8", "/", "3", "P", "P", "3", "/", "K", "7">>,
    <<"w">>, <<"-">>, <<"-">>, <<"0">>, <<"1">>>>
\* k7/2N5/8/8/8/8/8/7K w - - 0 1: White is to move and the black king stands attacked
FenKingEnPrise ==
  <<<<"k", "7", "/", "2", "N", "5", "/", "8", "/", "8", "/", "8", "/", "8", "/", "8", "/", "7", "K">>,
    <<"w">>, <<"-">>, <<"-">>, <<"0">>, <<"1">>>>
\* 4k3/8/8/8/3pK3/8/8/8 b - e3 0 1: an en-passant field with no pawn behind it
FenEpOverKing ==
  <<<<"4", "k", "3", "/", "8", "/", "8", "/", "8", "/", "3", "p", "K", "3", "/", "8", "/", "8", "/", "8">>,
    <<"b">>, <<"-">>, <<"e", "3">>, <<"0">>, <<"1">>>>

\* k7/8/1K6/8/8/8/8/8 w - - 0 1: the kings one square apart
FenKingsClose ==
  <<<<"k", "7", "/", "8", "/", "1", "K", "6", "/", "8", "/", "8", "/", "8", "/", "8", "/", "8">>,
    <<"w">>, <<"-">>, <<"-">>, <<"0">>, <<"1">>>>

TreeFens == {FenNullThenEp, FenKingsClose, FenKingEnPrise, FenEpOverKing}

InitTree ==
  /\ \E text \in TreeFens : board = from_fen(text)
  /\ undo_stack = <<>>
  /\ last = [op |-> "from_fen", mv |-> NoMove, pre |-> <<>>]
  /\ SearchAtRest

TreeMake == MakeMoveWithin(MaxTreePlies)
TreeNull == NullMoveWithin(MaxTreePlies)

NextTree == TreeMake \/ UnmakeMadeMove \/ TreeNull \/ NullMoveBack

SpecTree == InitTree /\ [][NextTree]_vars

\* the position the search started from
RootBoard == IF undo_stack = <<>> THEN board ELSE undo_stack[1].pre

KingCount(b, white) ==
  Cardinality({sq \in 0..63 :
                 b.squares[sq] = (IF white THEN WHITE_KING ELSE BLACK_KING)})
OneKingEach(b) == KingCount(b, TRUE) = 1 /\ KingCount(b, FALSE) = 1

\* a position of a game: the side that has just moved is not in check, and
\* the en-passant square, if any, lies behind a pawn of that side that
\* stands on its fourth rank
PositionOfAGame(b) ==
  /\ OneKingEach(b)
  /\ ~is_square_attacked(b, find_king(b, ~b.white_to_move), b.white_to_move)
  /\ b.en_passant_square >= 0 =>
       LET behind == IF b.white_to_move THEN b.en_passant_square - 8
                     ELSE b.en_passant_square + 8
       IN /\ behind \in 0..63
          /\ b.squares[behind] = (IF b.white_to_move THEN BLACK_PAWN ELSE WHITE_PAWN)
          /\ b.squares[b.en_passant_square] = EMPTY

C26_SearchLeavesBoardUnchanged ==
  PositionOfAGame(RootBoard) =>
    /\ last.op = "unmake" => board = last.pre[1]
    /\ last.op = "null_back" => board = last.pre[1]
    /\ last.op = "null" =>
         board = [undo_stack[Len(undo_stack)].pre
                    EXCEPT !.white_to_move = ~@]

\* C26 without the moves made below a null move
C26_RestoredOutsideNullMove ==
  (/\ PositionOfAGame(RootBoard)
   /\ \A i \in 1..Len(undo_stack) : undo_stack[i].mv # NoMove
   /\ last.op = "unmake")
  => board = last.pre[1]

\* 7k/8/8/8/8/8/8/K7 w - - 0 1: two kings in opposite corners
FenBareKings ==
  <<<<"7", "k", "/", "8", "/", "8", "/", "8", "/", "8", "/", "8", "/", "8", "/", "K", "7">>,
    <<"w">>, <<"-">>, <<"-">>, <<"0">>, <<"1">>>>

(***************************************************************************)
(* Repetition on the board: the kings of FenBareKings move to and fro in   *)
(* their corners (a1 b1 a2, h8 g8 h7), every move a legal move made by     *)
(* make_move and taken back by unmake_move.                                *)
(***************************************************************************)
RepetitionSquares == {0, 1, 8, 63, 62, 55}

InitRepetition ==
  /\ board = from_fen(FenBareKings)
  /\ undo_stack = <<>>
  /\ last = [op |-> "from_fen", mv |-> NoMove, pre |-> <<>>]
  /\ SearchAtRest

RepetitionMake ==
  /\ Len(undo_stack) < MaxRepetitionPlies
  /\ \E legal \in {generate_legal_moves(board)} :
     \E i \in 1..Len(legal) :
       /\ legal[i].to_sq \in RepetitionSquares
       /\ \E r \in {make_move(board, legal[i])} :
            /\ board' = r.board
            /\ undo_stack' = Append(undo_stack, [mv |-> legal[i], undo |-> r.undo, pre |-> board])
            /\ last' = [op |-> "make", mv |-> legal[i], pre |-> <<>>]
  /\ UNCHANGED searchVars

NextRepetition == RepetitionMake \/ UnmakeMove

SpecRepetition == InitRepetition /\ [][NextRepetition]_vars

\* how often the hash of the position on the board is in its history
HashOccurrences(b) ==
  Cardinality({i \in 1..Len(b.position_history) :
                 b.position_history[i] = compute_hash(b)})

\* C31: is_repetition is true exactly when the hash of the current position
\* occurs at least 3 times in position_history: on every history that
\* make_move (and unmake_move) builds, the early return for fewer than 5
\* entries never changes that answer.
C31_RepetitionIsThreeOccurrences ==
  is_repetition(board) <=> HashOccurrences(board) >= 3

\* the position on the board has come for the third time, by a move
C31_Witness ==
  /\ last.op = "make"
  /\ HashOccurrences(board) >= 3
  /\ is_repetition(board)

\* a history of fewer than 5 entries that holds the current position twice
\* is not reached: the early return is taken with at most one occurrence
C31_ShortHistoryHasOneOccurrence ==
  Len(board.position_history) < 5 => HashOccurrences(board) <= 1

(***************************************************************************)
(* search.rs: SearchEngine, the search of one thread that lib.rs exports.  *)
(* Its alphabeta, quiescence, order_moves and TranspositionTable are those *)
(* of WorkerSearch line by line (the statistics counters apart), and its   *)
(* search is the loop of WorkerSearch::search with the progress callback;  *)
(* stop_search is a field of its own, cleared at 261 and written by nobody *)
(* while search runs.  The engine is workers[0]: what SearchEngine::new    *)
(* made and what the searches so far have left in it.                      *)
(***************************************************************************)
\* SearchEngine::new (231-252)
SearchEngineNew ==
  [WorkerNew(0, EngineNew(1), game_from_fen(0, 0), 0) EXCEPT !.pc = "done"]

\* the head of SearchEngine::search (258-272): nodes_searched, best_move,
\* stop_search, pv and killer_moves are reset, the locals are made; the
\* history table and the transposition table are left as they are
SearchEngineReset(e, root, depth) ==
  [WorkerNew(0, e, root, depth) EXCEPT !.history = e.history]

InitEngine ==
  /\ board = from_fen(FenCastleEp)
  /\ undo_stack = <<>>
  /\ last = [op |-> "from_fen", mv |-> NoMove, pre |-> <<>>]
  /\ game_seed \in 0..MaxSeed
  /\ stop_search = FALSE
  /\ tt = TTNew
  /\ engine = EngineNew(1)
  /\ options = init_options(1)
  /\ coordinator = CoordinatorIdle
  /\ workers = (0 :> SearchEngineNew)
  /\ uci_board = game_from_fen(0, 0)
  /\ script = <<>>
  /\ arrived = 0
  /\ lines_read = 0
  /\ output = <<>>
  /\ results = <<>>

\* a caller calls SearchEngine::search(board, depth, callback)
EngineSearch ==
  /\ coordinator.pc = "idle"
  /\ Len(results) < MaxEngineSearches
  /\ \E root \in RootBoards, depth \in 1..MaxEngineDepth :
       /\ workers' = (0 :> SearchEngineReset(workers[0], root, depth))
       /\ coordinator' = [coordinator EXCEPT !.pc = "searching", !.depth = depth]
       /\ uci_board' = root
  /\ stop_search' = FALSE
  /\ UNCHANGED <<boardVars, options, game_seed, tt, engine, script, arrived,
                 lines_read, output, results>>

\* `(best_move, best_score)` (324)
EngineReturn ==
  /\ coordinator.pc = "searching"
  /\ workers[0].pc = "done"
  /\ coordinator' = [coordinator EXCEPT !.pc = "idle"]
  /\ results' = Append(results,
       [board |-> workers[0].root, depth |-> coordinator.depth,
        best_move |-> workers[0].local_best_move,
        score |-> workers[0].local_best_score,
        nodes |-> workers[0].nodes_searched,
        reported |-> workers[0].reported])
  /\ UNCHANGED <<boardVars, options, game_seed, stop_search, tt, engine, workers,
                 uci_board, script, arrived, lines_read, output>>

NextEngine ==
  \/ EngineSearch
  \/ WorkerStep(0)
  \/ EngineReturn

SpecEngine == InitEngine /\ [][NextEngine]_vars

\* C32: at the start of every search, when the first alphabeta call is
\* about to be made, the killer table and the history table of the engine
\* or worker that searches are empty (all none, all zero): nothing an
\* earlier search on the same engine or another worker wrote is in them.
C32_TablesEmptyAtSearchStart ==
  \A t \in DOMAIN workers :
    workers[t].pc = "depth1" =>
      workers[t].killer_moves = <<>> /\ workers[t].history = <<>>

\* the killer table alone
C32_KillersEmptyAtSearchStart ==
  \A t \in DOMAIN workers :
    workers[t].pc = "depth1" => workers[t].killer_moves = <<>>

(***************************************************************************)
(* ZobristHash on the board.  The keys are 64-bit values drawn once from a *)
(* seeded generator; a hash is modelled as the set of the keys that have   *)
(* been XORed into it an odd number of times, so that XOR is the symmetric *)
(* difference and two hashes are equal when they are made of the same      *)
(* keys (a chance collision of the random keys is outside the model).      *)
(***************************************************************************)
Xor(h, key_set) == (h \ key_set) \cup (key_set \ h)

SideKey == {<<"side_key">>}

\* ZobristHash::hash_position (search.rs 86-110)
zobrist_hash_position(b) ==
  LET pieces == {<<"piece_keys", b.squares[sq], sq>> :
                   sq \in {s \in 0..63 : b.squares[s] # EMPTY}}
      h1 == Xor({}, pieces)
      h2 == IF ~b.white_to_move THEN Xor(h1, SideKey) ELSE h1
      h3 == Xor(h2, {<<"castling_keys", b.castling_rights>>})
      ep_idx == IF b.en_passant_square >= 0 THEN b.en_passant_square % 8 ELSE 8
  IN Xor(h3, {<<"ep_keys", ep_idx>>})

\* a null child that is handed the hash of its parent
NullHash_Same(position_hash) == position_hash

\* `let null_hash = position_hash ^ self.zobrist.side_key;`
NullHash(position_hash) == Xor(position_hash, SideKey)

\* the board as the k-th step of the path left it
BoardAfter(k) == IF k = Len(undo_stack) THEN board ELSE undo_stack[k + 1].pre

\* the position_hash argument of the alphabeta call that the k-th step of
\* the path enters: hash_position of the root in search, hash_position of
\* the board after make_move in the move loop, and the parent's argument
\* XOR side_key for the null move
RECURSIVE PositionHashArgument(_)
PositionHashArgument(k) ==
  IF k = 0 THEN zobrist_hash_position(RootBoard)
  ELSE IF undo_stack[k].mv = NoMove THEN NullHash(PositionHashArgument(k - 1))
  ELSE zobrist_hash_position(BoardAfter(k))

\* the board is at the entry of an alphabeta call
AtNodeEntry == last.op \in {"from_fen", "make", "null"}

CastlingKinds ==
  { [right |-> CASTLE_WK, white |-> TRUE, rook_sq |-> 7, to_sq |-> 6],
    [right |-> CASTLE_WQ, white |-> TRUE, rook_sq |-> 0, to_sq |-> 2],
    [right |-> CASTLE_BK, white |-> FALSE, rook_sq |-> 63, to_sq |-> 62],
    [right |-> CASTLE_BQ, white |-> FALSE, rook_sq |-> 56, to_sq |-> 58] }

SquaresBetween(a, b) ==
  {s \in 0..63 : (a < s /\ s < b) \/ (b < s /\ s < a)}

\* the castling moves among the moves generated for the side to move
EmittedCastlings(b) ==
  LET moves == generate_pseudo_legal_moves(b)
  IN {moves[i] : i \in {j \in 1..Len(moves) : moves[j].is_castling}}

\* what the rules ask of a castling of the side to move, whose king
\* stands on king_sq
CastlingAllowed(b, kind, king_sq) ==
  /\ kind.white = b.white_to_move
  /\ HasBit(b.castling_rights, kind.right)
  /\ \A s \in SquaresBetween(king_sq, kind.rook_sq) : b.squares[s] = EMPTY
  /\ \A s \in {king_sq, kind.to_sq} \cup SquaresBetween(king_sq, kind.to_sq) :
       ~is_square_attacked(b, s, ~kind.white)

\* a castling move is emitted exactly when it is allowed
EmittedExactlyWhenAllowed(b) ==
  LET king_sq == find_king(b, b.white_to_move) IN
  king_sq # None =>
    \A kind \in CastlingKinds :
      (\E mv \in EmittedCastlings(b) : mv.to_sq = kind.to_sq)
        <=> CastlingAllowed(b, kind, king_sq)

\* an emitted castling move starts from e1 or e8 with the rook on its corner
EmittedFromHome(b) ==
  \A mv \in EmittedCastlings(b) :
    \E kind \in CastlingKinds :
      /\ kind.to_sq = mv.to_sq
      /\ kind.white = b.white_to_move
      /\ mv.from_sq = (IF kind.white THEN 4 ELSE 60)
      /\ b.squares[kind.rook_sq] = (IF kind.white THEN WHITE_ROOK ELSE BLACK_ROOK)

\* C34: a castling move is emitted exactly when the right is set, the
\* squares between the king and the rook are empty and the king's origin,
\* path square and destination are not attacked by the enemy; and in every
\* reachable position an emitted castling move starts from e1 or e8 with
\* the matching rook on its corner.
C34_CastlingEmittedWhenAllowedFromHome ==
  EmittedExactlyWhenAllowed(board) /\ EmittedFromHome(board)

\* the first half alone
C34_EmittedExactlyWhenAllowed == EmittedExactlyWhenAllowed(board)

\* the whole statement from the roots whose castling field agrees with the
\* placement
C34_FromBackedRoots ==
  RootBoard # from_fen(FenRightNoRook) =>
    EmittedExactlyWhenAllowed(board) /\ EmittedFromHome(board)

\* a castling move is emitted, and one is withheld because of an attack
C34_SomeCastlingEmitted == EmittedCastlings(board) # {}

\* ---------------------------------------------------------------------
\* C36: setoption and the contents of the transposition table
\* (uci.rs 162-186, 250-304)
\* ---------------------------------------------------------------------

\* the option a setoption line names, when the line is well formed
NamedOption == SetoptionName(last.args)

\* a well-formed setoption line for an option other than Hash and other than
\* the Clear Hash button has just been handled
SetoptionOfOtherOption ==
  /\ lines_read >= 1
  /\ script[lines_read].cmd = "setoption"
  /\ last.op = "setoption"
  /\ Len(last.args) >= 2 /\ last.args[1] = TextName
  /\ NamedOption # NameHash
  /\ NamedOption # NameClearHash

\* C36: a setoption command for an option other than Hash and other than the
\* Clear Hash button leaves the contents of the transposition table as they
\* were before the command
C36_OtherOptionKeepsTable ==
  SetoptionOfOtherOption => tt.table = last.pre_tt.table

\* setoption name UseLMR or Threads read after a search that left entries in
\* the table, and the table is empty afterwards
C36_TableLostByOtherOption ==
  /\ SetoptionOfOtherOption
  /\ NamedOption \in {NameUseLMR, NameThreads}
  /\ DOMAIN last.pre_tt.table # {}
  /\ DOMAIN tt.table = {}

\* ---------------------------------------------------------------------
\* C37: the first move of a node is searched
\* (search.rs 479-501, 543-585; parallel_search.rs 296-405)
\* ---------------------------------------------------------------------

\* alphabeta has returned from a node
NodeReturned == last.op \in {"alphabeta", "alphabeta_interrupted"}

\* no node that reached its move loop and stored its result stored
\* -INFINITY or an entry without a best move
C37_StoredEntryHasMove ==
  /\ \A t \in DOMAIN workers : ~workers[t].stored_none
  /\ NodeReturned => ~last.stored_none

\* no node that reached its move loop without one of its own loads of the
\* stop flag returning true returned -INFINITY
C37_ReturnedAboveMinusInfinity ==
  /\ \A t \in DOMAIN workers : ~workers[t].unsearched
  /\ NodeReturned => ~last.unsearched

\* C37: every alphabeta node that has a legal move, reaches its move loop and
\* does not observe the stop flag searches at least one move: the best score
\* it returns is greater than -INFINITY, and the entry it stores in the
\* transposition table carries a best move
C37_FirstMoveSearched ==
  C37_ReturnedAboveMinusInfinity /\ C37_StoredEntryHasMove

\* C37, amended: every alphabeta node that has a legal move, reaches its move
\* loop and in whose subtree no load of the stop flag returns true returns a
\* best score greater than -INFINITY; every entry a node stores carries a
\* best move and a score greater than -INFINITY
C37_FirstMoveSearchedUnlessStoppedBelow ==
  /\ \A t \in DOMAIN workers : ~workers[t].unsearched_unseen
  /\ NodeReturned => ~last.unsearched_unseen
  /\ C37_StoredEntryHasMove

\* a node was searched to depth 2 or more in a window above its evaluation
\* plus the futility margin, no load of the stop flag returned true, and the
\* table holds what the nodes stored, each entry with a best move
C37_Witness ==
  /\ last.op = "alphabeta" /\ ~last.seen
  /\ last.depth >= 2 /\ last.alpha >= 100
  /\ DOMAIN tt.table # {}
  /\ \A h \in DOMAIN tt.table : tt.table[h].best_move # NoneMove

\* the table is not in use, the stop flag is first seen by a node two plies
\* below, and the node returns -INFINITY
C37_MinusInfinityFromBelow ==
  /\ last.op = "alphabeta_interrupted"
  /\ ~last.use_tt /\ last.seen
  /\ last.unsearched
  /\ last.score = -INFINITY

\* ---------------------------------------------------------------------
\* C38: the fullness of the table (parallel_search.rs 98-101; search.rs 188-191)
\* ---------------------------------------------------------------------

\* SharedTranspositionTable::hashfull, TranspositionTable::hashfull
hashfull(t) ==
  IF TTSize = 0 THEN 0
  ELSE LET per_mille == (t.writes * 1000) \div TTSize
       IN IF per_mille < 1000 THEN per_mille ELSE 1000

\* the slots of the table that hold an entry
OccupiedSlots(t) == Cardinality(DOMAIN t.table)

\* the fullness is within 0..1000
C38_HashfullInRange == hashfull(tt) \in 0..1000

\* C38: the fullness of the table is 1000 times the number of occupied slots
\* divided by the capacity, and within 0..1000, after any sequence of stores,
\* overwrites and clears
C38_HashfullIsOccupancyPerMille ==
  /\ hashfull(tt) = (1000 * OccupiedSlots(tt)) \div TTSize
  /\ C38_HashfullInRange

\* a store has overwritten an entry: as many slots are occupied as before,
\* and the fullness has grown
C38_OverwriteRaisesHashfull ==
  /\ last.op = "store"
  /\ OccupiedSlots(tt) = OccupiedSlots(last.pre[1])
  /\ hashfull(tt) > hashfull(last.pre[1])

(***************************************************************************)
(* evaluation.rs on the board itself.  The search of the model runs on the *)
(* game graph with its own evaluate; the operators below are the static    *)
(* evaluation of a Board, term by term.                                    *)
(***************************************************************************)
PAWN_PST ==
  <<0, 0, 0, 0, 0, 0, 0, 0,
    5, 10, 10, -20, -20, 10, 10, 5,
    5, -5, -10, 0, 0, -10, -5, 5,
    0, 0, 0, 20, 20, 0, 0, 0,
    5, 5, 10, 25, 25, 10, 5, 5,
    10, 10, 20, 30, 30, 20, 10, 10,
    50, 50, 50, 50, 50, 50, 50, 50,
    0, 0, 0, 0, 0, 0, 0, 0>>
KNIGHT_PST ==
  <<-50, -40, -30, -30, -30, -30, -40, -50,
    -40, -20, 0, 5, 5, 0, -20, -40,
    -30, 5, 10, 15, 15, 10, 5, -30,
    -30, 0, 15, 20, 20, 15, 0, -30,
    -30, 5, 15, 20, 20, 15, 5, -30,
    -30, 0, 10, 15, 15, 10, 0, -30,
    -40, -20, 0, 0, 0, 0, -20, -40,
    -50, -40, -30, -30, -30, -30, -40, -50>>
BISHOP_PST ==
  <<-20, -10, -10, -10, -10, -10, -10, -20,
    -10, 5, 0, 0, 0, 0, 5, -10,
    -10, 10, 10, 10, 10, 10, 10, -10,
    -10, 0, 10, 10, 10, 10, 0, -10,
    -10, 5, 5, 10, 10, 5, 5, -10,
    -10, 0, 5, 10, 10, 5, 0, -10,
    -10, 0, 0, 0, 0, 0, 0, -10,
    -20, -10, -10, -10, -10, -10, -10, -20>>
ROOK_PST ==
  <<0, 0, 0, 5, 5, 0, 0, 0,
    -5, 0, 0, 0, 0, 0, 0, -5,
    -5, 0, 0, 0, 0, 0, 0, -5,
    -5, 0, 0, 0, 0, 0, 0, -5,
    -5, 0, 0, 0, 0, 0, 0, -5,
    -5, 0, 0, 0, 0, 0, 0, -5,
    5, 10, 10, 10, 10, 10, 10, 5,
    0, 0, 0, 0, 0, 0, 0, 0>>
QUEEN_PST ==
  <<-20, -10, -10, -5, -5, -10, -10, -20,
    -10, 0, 5, 0, 0, 0, 0, -10,
    -10, 5, 5, 5, 5, 5, 0, -10,
    0, 0, 5, 5, 5, 5, 0, -5,
    -5, 0, 5, 5, 5, 5, 0, -5,
    -10, 0, 5, 5, 5, 5, 0, -10,
    -10, 0, 0, 0, 0, 0, 0, -10,
    -20, -10, -10, -5, -5, -10, -10, -20>>
KING_MIDDLEGAME_PST ==
  <<20, 30, 10, 0, 0, 10, 30, 20,
    20, 20, 0, 0, 0, 0, 20, 20,
    -10, -20, -20, -20, -20, -20, -20, -10,
    -20, -30, -30, -40, -40, -30, -30, -20,
    -30, -40, -40, -50, -50, -40, -40, -30,
    -30, -40, -40, -50, -50, -40, -40, -30,
    -30, -40, -40, -50, -50, -40, -40, -30,
    -30, -40, -40, -50, -50, -40, -40, -30>>
KING_ENDGAME_PST ==
  <<-50, -30, -30, -30, -30, -30, -30, -50,
    -30, -30, 0, 0, 0, 0, -30, -30,
    -30, -10, 20, 30, 30, 20, -10, -30,
    -30, -10, 30, 40, 40, 30, -10, -30,
    -30, -10, 30, 40, 40, 30, -10, -30,
    -30, -10, 20, 30, 30, 20, -10, -30,
    -30, -20, -10, 0, 0, -10, -20, -30,
    -50, -40, -30, -20, -20, -30, -40, -50>>

DOUBLED_PAWN_PENALTY == -15
ISOLATED_PAWN_PENALTY == -20
PASSED_PAWN_BONUS == <<0, 10, 20, 35, 60, 100, 150, 0>>
PAWN_CHAIN_BONUS == 5
BISHOP_PAIR_BONUS == 50
ROOK_ON_OPEN_FILE_BONUS == 25
ROOK_ON_SEMI_OPEN_FILE_BONUS == 15
ROOK_ON_7TH_RANK_BONUS == 30
KNIGHT_MOBILITY_BONUS == 4
BISHOP_MOBILITY_BONUS == 5
ROOK_MOBILITY_BONUS == 3
QUEEN_MOBILITY_BONUS == 2
CENTER_SQUARES == {27, 28, 35, 36}
CENTER_PAWN_BONUS == 15

\* the sum of f[lo], .., f[hi]
RECURSIVE SumOf(_, _, _)
SumOf(f, lo, hi) ==
  IF lo > hi THEN 0
  ELSE IF lo = hi THEN f[lo]
  ELSE SumOf(f, lo, (lo + hi) \div 2) + SumOf(f, (lo + hi) \div 2 + 1, hi)

\* a table read at the same index for both colours
get_pst_value_SameIndex(piece_type, sq, is_white, endgame) ==
  CASE piece_type = PAWN -> PAWN_PST[sq + 1]
    [] piece_type = KNIGHT -> KNIGHT_PST[sq + 1]
    [] piece_type = BISHOP -> BISHOP_PST[sq + 1]
    [] piece_type = ROOK -> ROOK_PST[sq + 1]
    [] piece_type = QUEEN -> QUEEN_PST[sq + 1]
    [] piece_type = KING -> IF endgame THEN KING_ENDGAME_PST[sq + 1]
                            ELSE KING_MIDDLEGAME_PST[sq + 1]
    [] OTHER -> 0

\* get_pst_value: the tables are written from White's side, Black reads them
\* at the square mirrored in the ranks
get_pst_value(piece_type, sq, is_white, endgame) ==
  LET index == IF is_white THEN sq ELSE (7 - sq \div 8) * 8 + (sq % 8)
  IN CASE piece_type = PAWN -> PAWN_PST[index + 1]
       [] piece_type = KNIGHT -> KNIGHT_PST[index + 1]
       [] piece_type = BISHOP -> BISHOP_PST[index + 1]
       [] piece_type = ROOK -> ROOK_PST[index + 1]
       [] piece_type = QUEEN -> QUEEN_PST[index + 1]
       [] piece_type = KING -> IF endgame THEN KING_ENDGAME_PST[index + 1]
                               ELSE KING_MIDDLEGAME_PST[index + 1]
       [] OTHER -> 0

\* count_material: the material of a colour, kings left out
count_material(b, color) ==
  SumOf([sq \in 0..63 |->
           IF /\ b.squares[sq] # EMPTY
              /\ get_piece_type(b.squares[sq]) # KING
              /\ (get_piece_color(b.squares[sq]) = WHITE) = (color = WHITE)
           THEN PieceValue(get_piece_type(b.squares[sq])) ELSE 0], 0, 63)

is_endgame(b) == count_material(b, WHITE) <= 1300 /\ count_material(b, BLACK) <= 1300

\* get_pawn_positions, and the pawns of a colour on a file
PawnSquares(b, pawn) == {sq \in 0..63 : b.squares[sq] = pawn}
PawnsOnFile(b, pawn, file) == Cardinality({sq \in PawnSquares(b, pawn) : sq % 8 = file})

\* the terms of evaluate_pawn_structure for the white pawn on sq
WhitePawnTerms(b, sq) ==
  LET file == sq % 8
      rank == sq \div 8
      doubled == PawnsOnFile(b, WHITE_PAWN, file) > 1
      has_neighbor == \/ file > 0 /\ PawnsOnFile(b, WHITE_PAWN, file - 1) > 0
                      \/ file < 7 /\ PawnsOnFile(b, WHITE_PAWN, file + 1) > 0
      is_passed == \A check_file \in Max(file - 1, 0)..(IF file + 1 < 7 THEN file + 1 ELSE 7) :
                     \A check_rank \in (rank + 1)..7 :
                       b.squares[check_rank * 8 + check_file] # BLACK_PAWN
      chained == /\ sq >= 9
                 /\ \/ file > 0 /\ b.squares[sq - 9] = WHITE_PAWN
                    \/ file < 7 /\ b.squares[sq - 7] = WHITE_PAWN
  IN (IF doubled THEN DOUBLED_PAWN_PENALTY ELSE 0)
     + (IF ~has_neighbor THEN ISOLATED_PAWN_PENALTY ELSE 0)
     + (IF is_passed THEN PASSED_PAWN_BONUS[rank + 1] ELSE 0)
     + (IF chained THEN PAWN_CHAIN_BONUS ELSE 0)

\* the terms of evaluate_pawn_structure for the black pawn on sq, to be
\* subtracted
BlackPawnTerms(b, sq) ==
  LET file == sq % 8
      rank == sq \div 8
      doubled == PawnsOnFile(b, BLACK_PAWN, file) > 1
      has_neighbor == \/ file > 0 /\ PawnsOnFile(b, BLACK_PAWN, file - 1) > 0
                      \/ file < 7 /\ PawnsOnFile(b, BLACK_PAWN, file + 1) > 0
      is_passed == \A check_file \in Max(file - 1, 0)..(IF file + 1 < 7 THEN file + 1 ELSE 7) :
                     \A check_rank \in 0..(rank - 1) :
                       b.squares[check_rank * 8 + check_file] # WHITE_PAWN
      chained == /\ sq <= 54
                 /\ \/ file < 7 /\ sq + 9 < 64 /\ b.squares[sq + 9] = BLACK_PAWN
                    \/ file > 0 /\ b.squares[sq + 7] = BLACK_PAWN
  IN (IF doubled THEN DOUBLED_PAWN_PENALTY ELSE 0)
     + (IF ~has_neighbor THEN ISOLATED_PAWN_PENALTY ELSE 0)
     + (IF is_passed THEN PASSED_PAWN_BONUS[(7 - rank) + 1] ELSE 0)
     + (IF chained THEN PAWN_CHAIN_BONUS ELSE 0)

evaluate_pawn_structure(b) ==
  SumOf([sq \in 0..63 |->
           IF b.squares[sq] = WHITE_PAWN THEN WhitePawnTerms(b, sq)
           ELSE IF b.squares[sq] = BLACK_PAWN THEN -BlackPawnTerms(b, sq)
           ELSE 0], 0, 63)

\* evaluate_pieces: rooks on open and half-open files and on the seventh
\* rank, and the bishop pair
evaluate_pieces(b) ==
  LET OpenFor(file, own) ==
        IF PawnsOnFile(b, WHITE_PAWN, file) = 0 /\ PawnsOnFile(b, BLACK_PAWN, file) = 0
        THEN ROOK_ON_OPEN_FILE_BONUS
        ELSE IF PawnsOnFile(b, own, file) = 0 THEN ROOK_ON_SEMI_OPEN_FILE_BONUS
        ELSE 0
      rooks ==
        SumOf([sq \in 0..63 |->
                 IF b.squares[sq] = WHITE_ROOK
                 THEN OpenFor(sq % 8, WHITE_PAWN)
                      + (IF sq \div 8 = 6 THEN ROOK_ON_7TH_RANK_BONUS ELSE 0)
                 ELSE IF b.squares[sq] = BLACK_ROOK
                 THEN -(OpenFor(sq % 8, BLACK_PAWN)
                        + (IF sq \div 8 = 1 THEN ROOK_ON_7TH_RANK_BONUS ELSE 0))
                 ELSE 0], 0, 63)
      white_bishops == Cardinality({sq \in 0..63 : b.squares[sq] = WHITE_BISHOP})
      black_bishops == Cardinality({sq \in 0..63 : b.squares[sq] = BLACK_BISHOP})
  IN rooks + (IF white_bishops >= 2 THEN BISHOP_PAIR_BONUS ELSE 0)
           - (IF black_bishops >= 2 THEN BISHOP_PAIR_BONUS ELSE 0)

\* the squares a sliding piece of `color` reaches from `current` in the
\* direction d (the loops of count_mobility); checked: the step is tested
\* for leaving the board by the side
RECURSIVE SlideCount(_, _, _, _, _)
SlideCount(b, current, d, color, checked) ==
  LET next_sq == current + d IN
  IF next_sq < 0 \/ next_sq >= 64 THEN 0
  ELSE IF checked /\ Abs((next_sq % 8) - (current % 8)) # 1 THEN 0
  ELSE IF b.squares[next_sq] = EMPTY THEN 1 + SlideCount(b, next_sq, d, color, checked)
  ELSE IF get_piece_color(b.squares[next_sq]) # color THEN 1
  ELSE 0

count_mobility(b, sq, piece_type, is_white) ==
  LET color == IF is_white THEN WHITE ELSE BLACK
      file == sq % 8
  IN CASE piece_type = KNIGHT ->
            Cardinality({i \in 1..8 :
              LET to_sq == sq + KNIGHT_OFFSETS[i] IN
              /\ to_sq >= 0 /\ to_sq < 64
              /\ Abs((to_sq % 8) - file) <= 2
              /\ \/ b.squares[to_sq] = EMPTY
                 \/ get_piece_color(b.squares[to_sq]) # color})
       [] piece_type = BISHOP ->
            SumOf([i \in 1..4 |-> SlideCount(b, sq, BISHOP_DIRECTIONS[i], color, TRUE)], 1, 4)
       [] piece_type = ROOK ->
            SumOf([i \in 1..4 |->
                     SlideCount(b, sq, ROOK_DIRECTIONS[i], color,
                                ROOK_DIRECTIONS[i] \in {1, -1})], 1, 4)
       [] piece_type = QUEEN ->
            SumOf([i \in 1..8 |->
                     SlideCount(b, sq, QUEEN_DIRECTIONS[i], color,
                                QUEEN_DIRECTIONS[i] \in {1, -1, 7, -9, 9, -7})], 1, 8)
       [] OTHER -> 0

evaluate_mobility(b) ==
  SumOf([sq \in 0..63 |->
           LET piece_type == get_piece_type(b.squares[sq])
               is_white == get_piece_color(b.squares[sq]) = WHITE
               bonus_per_move ==
                 CASE piece_type = KNIGHT -> KNIGHT_MOBILITY_BONUS
                   [] piece_type = BISHOP -> BISHOP_MOBILITY_BONUS
                   [] piece_type = ROOK -> ROOK_MOBILITY_BONUS
                   [] piece_type = QUEEN -> QUEEN_MOBILITY_BONUS
                   [] OTHER -> 0
               bonus == count_mobility(b, sq, piece_type, is_white) * bonus_per_move
           IN IF b.squares[sq] = EMPTY THEN 0
              ELSE IF is_white THEN bonus ELSE -bonus], 0, 63)

evaluate_center_control(b) ==
  SumOf([sq \in 0..63 |->
           IF sq \in CENTER_SQUARES /\ b.squares[sq] # EMPTY
              /\ get_piece_type(b.squares[sq]) = PAWN
           THEN IF get_piece_color(b.squares[sq]) = WHITE
                THEN CENTER_PAWN_BONUS ELSE -CENTER_PAWN_BONUS
           ELSE 0], 0, 63)

\* evaluation.rs evaluate, of a Board: material and piece-square tables, the
\* four terms, and the sign of the side to move
evaluate_board(b) ==
  LET endgame == is_endgame(b)
      material ==
        SumOf([sq \in 0..63 |->
                 LET piece == b.squares[sq]
                     is_white == get_piece_color(piece) = WHITE
                     value == PieceValue(get_piece_type(piece))
                              + get_pst_value(get_piece_type(piece), sq, is_white, endgame)
                 IN IF piece = EMPTY THEN 0
                    ELSE IF is_white THEN value ELSE -value], 0, 63)
      score == material + evaluate_pawn_structure(b) + evaluate_pieces(b)
               + evaluate_mobility(b) + evaluate_center_control(b)
  IN IF b.white_to_move THEN score ELSE -score


\* ---------------------------------------------------------------------
\* C39: evaluate and the mirrored position (evaluation.rs 217-320, 518-555)
\* ---------------------------------------------------------------------
\* r3k3/1p4pp/p2b4/3P4/P6n/1P4P1/2R4P/4K1N1 w - - 0 1: pawn chains on the a- and h-files, a passed pawn, a rook, minor pieces
FenEvalChains ==
  <<<<"r", "3", "k", "3", "/", "1", "p", "4", "p", "p", "/", "p", "2", "b", "4", "/", "3", "P", "4", "/", "P", "6", "n", "/", "1", "P", "4", "P", "1", "/", "2", "R", "4", "P", "/", "4", "K", "1", "N", "1">>,
    <<"w">>, <<"-">>, <<"-">>, <<"0">>, <<"1">>>>
\* 3qk3/5p2/2b1b3/8/3P4/2B2P2/r3Q3/R3K2R b - - 0 1: queens, the bishop pair, a rook on its seventh rank, an isolated pawn
FenEvalHeavy ==
  <<<<"3", "q", "k", "3", "/", "5", "p", "2", "/", "2", "b", "1", "b", "3", "/", "8", "/", "3", "P", "4", "/", "2", "B", "2", "P", "2", "/", "r", "3", "Q", "3", "/", "R", "3", "K", "2", "R">>,
    <<"b">>, <<"-">>, <<"-">>, <<"0">>, <<"1">>>>
\* 4k3/8/8/8/8/8/P7/1P2K3 w - - 0 1: a pawn on the first rank, as from_fen takes it
FenEvalPawnOnFirst ==
  <<<<"4", "k", "3", "/", "8", "/", "8", "/", "8", "/", "8", "/", "8", "/", "P", "7", "/", "1", "P", "2", "K", "3">>,
    <<"w">>, <<"-">>, <<"-">>, <<"0">>, <<"1">>>>

EvaluateFens == {FenEvalChains, FenEvalHeavy, FenEvalPawnOnFirst}

\* the board mirrored in the ranks, with the colours of all pieces swapped
\* and the other side to move
MirrorSquare(sq) == (7 - sq \div 8) * 8 + (sq % 8)
SwapColor(piece) ==
  IF piece = EMPTY THEN EMPTY
  ELSE get_piece_type(piece) + (IF get_piece_color(piece) = WHITE THEN BLACK ELSE WHITE)
MirrorBoard(b) ==
  [b EXCEPT !.squares = [sq \in 0..63 |-> SwapColor(b.squares[MirrorSquare(sq)])],
            !.white_to_move = ~b.white_to_move]

InitEvaluate ==
  /\ \E fen \in EvaluateFens : board = from_fen(fen)
  /\ undo_stack = <<>>
  /\ last = [op |-> "from_fen", mv |-> NoMove, pre |-> <<>>]
  /\ SearchAtRest

\* a legal move is made on the way to the position
EvaluateMake ==
  /\ last.op # "evaluate"
  /\ MakeMoveWithin(MaxEvaluatePlies)

\* quiescence calls evaluate on the board; the mirrored board is evaluated
\* beside it
Evaluate ==
  /\ last.op # "evaluate"
  /\ last' = [op |-> "evaluate", mv |-> NoMove, pre |-> <<>>,
              score |-> evaluate_board(board),
              mirror_score |-> evaluate_board(MirrorBoard(board)),
              pawn_score |-> evaluate_pawn_structure(board),
              mirror_pawn_score |-> evaluate_pawn_structure(MirrorBoard(board))]
  /\ UNCHANGED <<board, undo_stack>>
  /\ UNCHANGED searchVars

NextEvaluate == EvaluateMake \/ Evaluate

SpecEvaluate == InitEvaluate /\ [][NextEvaluate]_vars

\* no pawn stands on the first or on the eighth rank
NoPawnOnEdgeRanks(b) ==
  \A sq \in (0..7) \cup (56..63) : get_piece_type(b.squares[sq]) # PAWN

\* C39: for every position with no pawns on the first or eighth rank,
\* mirroring the board vertically, swapping the colours of all pieces and
\* flipping the side to move yields exactly the same score of evaluate, the
\* pawn-structure term (negated, being White's view) included
C39_EvaluateColourSymmetric ==
  last.op = "evaluate" /\ NoPawnOnEdgeRanks(board) =>
    /\ last.mirror_score = last.score
    /\ last.mirror_pawn_score = -last.pawn_score

\* evaluated: a position with a white pawn on the a-file defended by a pawn
\* on the b-file and a black pawn of a chain as well, and a score other than 0
C39_Witness ==
  /\ last.op = "evaluate"
  /\ NoPawnOnEdgeRanks(board)
  /\ \E sq \in 16..55 : /\ sq % 8 = 0 /\ board.squares[sq] = WHITE_PAWN
                        /\ board.squares[sq - 7] = WHITE_PAWN
  /\ \E sq \in 8..47 : /\ sq % 8 = 0 /\ board.squares[sq] = BLACK_PAWN
                       /\ board.squares[sq + 9] = BLACK_PAWN
  /\ \E sq \in 16..55 : /\ sq % 8 = 7 /\ board.squares[sq] \in {WHITE_PAWN, BLACK_PAWN}
  /\ last.score # 0
  /\ last.pawn_score # 0

\* the same without the condition on the pawns
C39_SymmetricOnEveryBoard ==
  last.op = "evaluate" => last.mirror_score = last.score

\* with a white pawn on the first rank the scores differ
C39_PawnOnFirstRankDiffers ==
  /\ last.op = "evaluate"
  /\ ~NoPawnOnEdgeRanks(board)
  /\ last.mirror_score # last.score

\* ---------------------------------------------------------------------
\* C40: insufficient material (board.rs 483-526)
\* ---------------------------------------------------------------------

\* the non-empty squares, in the order of the scan (board.rs 484-491)
PiecesOnBoard(b) == {sq \in 0..63 : b.squares[sq] # EMPTY}

\* the colour of a square: (sq / 8 + sq % 8) % 2
SquareColor(sq) == ((sq \div 8) + (sq % 8)) % 2

\* two bishops on same-coloured squares, whoever owns them
has_insufficient_material_AnyTwoBishops(b) ==
  LET pieces == PiecesOnBoard(b)
      bishops == {sq \in pieces : get_piece_type(b.squares[sq]) = BISHOP}
  IN \/ Cardinality(pieces) = 2
     \/ /\ Cardinality(pieces) = 3
        /\ \E sq \in pieces : get_piece_type(b.squares[sq]) \in {KNIGHT, BISHOP}
     \/ /\ Cardinality(pieces) = 4
        /\ Cardinality(bishops) = 2
        /\ \A sq1, sq2 \in bishops : SquareColor(sq1) = SquareColor(sq2)

\* Board::has_insufficient_material
has_insufficient_material(b) ==
  LET pieces == PiecesOnBoard(b)
      bishops == {sq \in pieces : get_piece_type(b.squares[sq]) = BISHOP}
  IN \/ Cardinality(pieces) = 2
     \/ /\ Cardinality(pieces) = 3
        /\ \E sq \in pieces : get_piece_type(b.squares[sq]) \in {KNIGHT, BISHOP}
     \/ /\ Cardinality(pieces) = 4
        /\ Cardinality(bishops) = 2
        /\ \A sq1, sq2 \in bishops :
             sq1 # sq2 => /\ SquareColor(sq1) = SquareColor(sq2)
                          /\ get_piece_color(b.squares[sq1]) # get_piece_color(b.squares[sq2])

\* the squares the pieces beside the kings are put on (two of each colour),
\* and the pieces
MaterialSquares == {18, 19, 26, 27}
MaterialPieces ==
  {color + piece_type : color \in {WHITE, BLACK},
                        piece_type \in {PAWN, KNIGHT, BISHOP, ROOK, QUEEN}}

\* the board from_fen builds for the two kings of FenBareKings and the
\* pieces of `extra`, a function from squares to pieces
MaterialBoard(extra) ==
  LET bare == from_fen(FenBareKings)
      b0 == [bare EXCEPT !.squares = [sq \in 0..63 |->
                           IF sq \in DOMAIN extra THEN extra[sq] ELSE bare.squares[sq]]]
  IN [b0 EXCEPT !.position_history = <<compute_hash(b0)>>]

InitMaterial ==
  /\ \E squares \in SUBSET MaterialSquares :
       /\ Cardinality(squares) <= MaxExtraPieces
       /\ \E extra \in [squares -> MaterialPieces] : board = MaterialBoard(extra)
  /\ undo_stack = <<>>
  /\ last = [op |-> "from_fen", mv |-> NoMove, pre |-> <<>>]
  /\ SearchAtRest

\* alphabeta asks whether the material can still mate (search.rs 396)
InsufficientMaterial ==
  /\ last.op # "has_insufficient_material"
  /\ last' = [op |-> "has_insufficient_material", mv |-> NoMove, pre |-> <<>>,
              result |-> has_insufficient_material(board)]
  /\ UNCHANGED <<board, undo_stack>>
  /\ UNCHANGED searchVars

\* a capture or another legal move changes the material or leaves it
MaterialMake ==
  /\ last.op = "from_fen"
  /\ MakeMoveWithin(1)

NextMaterial == MaterialMake \/ InsufficientMaterial

SpecMaterial == InitMaterial /\ [][NextMaterial]_vars

\* the pieces of a colour beside its king, as the set of their squares
ExtraOf(b, color) ==
  {sq \in 0..63 : /\ b.squares[sq] # EMPTY
                  /\ get_piece_color(b.squares[sq]) = color
                  /\ get_piece_type(b.squares[sq]) # KING}
TypesOf(b, squares) == {get_piece_type(b.squares[sq]) : sq \in squares}

KingAgainstKing(b) == ExtraOf(b, WHITE) = {} /\ ExtraOf(b, BLACK) = {}

KingAndMinorAgainstKing(b) ==
  \E color \in {WHITE, BLACK} :
    /\ Cardinality(ExtraOf(b, color)) = 1
    /\ TypesOf(b, ExtraOf(b, color)) \subseteq {KNIGHT, BISHOP}
    /\ ExtraOf(b, WHITE + BLACK - color) = {}

BishopAgainstBishopSameSquares(b) ==
  /\ Cardinality(ExtraOf(b, WHITE)) = 1 /\ TypesOf(b, ExtraOf(b, WHITE)) = {BISHOP}
  /\ Cardinality(ExtraOf(b, BLACK)) = 1 /\ TypesOf(b, ExtraOf(b, BLACK)) = {BISHOP}
  /\ \A w \in ExtraOf(b, WHITE), k \in ExtraOf(b, BLACK) : SquareColor(w) = SquareColor(k)

\* each side has its king, and one only
BothKings(b) ==
  /\ Cardinality({sq \in 0..63 : b.squares[sq] = WHITE_KING}) = 1
  /\ Cardinality({sq \in 0..63 : b.squares[sq] = BLACK_KING}) = 1

C40_TwoKnightsSufficient ==
  last.op = "has_insufficient_material" /\ BothKings(board)
  /\ Cardinality(PiecesOnBoard(board)) = 4
  /\ TypesOf(board, ExtraOf(board, WHITE) \cup ExtraOf(board, BLACK)) = {KNIGHT} =>
    ~last.result

C40_WitnessTwoKnights ==
  /\ last.op = "has_insufficient_material"
  /\ Cardinality(ExtraOf(board, WHITE)) = 2
  /\ TypesOf(board, ExtraOf(board, WHITE)) = {KNIGHT}
  /\ ExtraOf(board, BLACK) = {}
  /\ ~last.result

(***************************************************************************)
(* Checks on the search and the protocol loop (Spec, SpecFair).            *)
(***************************************************************************)
CallPcs == {"depth1_call", "aspiration_call", "research_call"}
Returned(w) == w.pc \in {"done", "joined"}

\* C2: the (move, score) pair ParallelSearchEngine::search returns comes from
\* an iteration a worker ran to completion: neither the move nor the score
\* was produced by an alphabeta call that the stop flag cut short.
C2_ResultFromCompletedIteration ==
  \A i \in 1..Len(results) : ~results[i].move_cut /\ ~results[i].score_cut

\* C3: once the stop flag is set every worker eventually returns from its
\* search without starting another iteration: no make_move follows a load
\* that returned true, a thread at the head of its loop does not go on to
\* another iteration, a call entered with the flag set returns at once
\* (no node counted, nothing stored), and every thread ends up returned.
C3_StopResponsive ==
  /\ [](\A t \in ThreadIds : workers[t].makes_after_stop = 0)
  /\ [][\A t \in ThreadIds :
          /\ (stop_search /\ stop_search' /\ workers[t].pc = "loop")
               => workers'[t].pc # "aspiration"
          /\ (workers[t].pc \in CallPcs /\ workers[t].entered_stopped
              /\ workers'[t].pc # workers[t].pc)
               => /\ workers'[t].nodes_searched = workers[t].nodes_searched
                  /\ tt' = tt]_vars
  /\ (stop_search ~> \A t \in ThreadIds : Returned(workers[t]))

\* C3 witness: the flag is set and a helper that was interrupted inside a
\* call has returned and been joined
C3_Witness ==
  /\ stop_search
  /\ \E h \in HelperIds : workers[h].interrupted /\ workers[h].pc = "joined"

\* C4: a stop line that arrives while a go search is in progress cancels that
\* search: a search during which a stop line was already waiting in stdin
\* when the main thread entered its last iteration does not run that
\* iteration and all its depths to the end.
C4_StopCancelsRunningSearch ==
  ~(/\ coordinator.pc = "returned"
    /\ workers[0].stop_waiting
    /\ workers[0].current_depth > coordinator.depth
    /\ ~workers[0].interrupted)

\* C5: when search returns the stop flag is set and every helper it spawned
\* has been joined; hence no thread of a search is running while the
\* protocol loop is between searches, where the next go clears the flag.
C5_ReturnedStoppedAndJoined ==
  /\ coordinator.pc = "returned"
       => stop_search /\ \A h \in HelperIds : workers[h].pc = "joined"
  /\ coordinator.pc \in {"idle", "returned"}
       => \A t \in ThreadIds : Returned(workers[t])

\* C5 witness: search has returned with a helper that the flag stopped before
\* it had run all its depths
C5_Witness ==
  /\ coordinator.pc = "returned"
  /\ \E h \in HelperIds : workers[h].current_depth <= workers[h].depth

\* C6: with one thread, two searches of the same position with the same depth
\* and toggles return the same move, score and node count, whatever the
\* engine has searched before.
C6_SingleThreadDeterministic ==
  \A i, j \in 1..Len(results) :
    (/\ results[i].num_threads = 1 /\ results[j].num_threads = 1
     /\ results[i].board = results[j].board
     /\ results[i].depth = results[j].depth
     /\ results[i].toggles = results[j].toggles)
    => /\ results[i].best_move = results[j].best_move
       /\ results[i].score = results[j].score
       /\ results[i].nodes = results[j].nodes

GoLinesRead == Cardinality({i \in 1..lines_read : script[i].cmd = "go"})

\* C8: every go is answered with exactly one bestmove line; it names a move
\* that is legal in the position when the position has a legal move, and is
\* 0000 only when it has none.
C8_OneLegalBestmove ==
  /\ Len(output) = GoLinesRead - (IF coordinator.pc = "idle" THEN 0 ELSE 1)
  /\ \A i \in 1..Len(output) :
       \A legal \in {game_legal_moves(output[i].board)} :
         IF legal # <<>>
         THEN \E k \in 1..Len(legal) : output[i].bestmove = to_uci(legal[k])
         ELSE output[i].bestmove = NullMoveText

\* C8 witness: go has been answered with a move the coordinator adopted from
\* a helper
C8_Witness ==
  /\ output # <<>>
  /\ coordinator.pc = "idle"
  /\ coordinator.adopted # 0
  /\ output[Len(output)].bestmove # NullMoveText

\* C8 second case reached: the answer 0000 for a position without legal moves
C8_WitnessNoMove ==
  /\ output # <<>>
  /\ output[Len(output)].bestmove = NullMoveText

\* C23: during one search the progress callback is invoked only for depths
\* whose iteration completed without being cancelled, at most once per
\* depth, in strictly increasing depth order starting at depth 1, and the
\* score it reports is never the result of an alphabeta call cut short by
\* the stop flag.
C23_CallbackPerCompletedDepth ==
  0 \in ThreadIds =>
    LET w == workers[0]
        rep == w.reported
    IN /\ rep # <<>> => rep[1].depth = 1
       /\ \A k \in 2..Len(rep) : rep[k].depth > rep[k - 1].depth
       /\ \A k \in 1..Len(rep) :
            /\ ~rep[k].cut
            /\ rep[k].depth <= w.depth
            /\ rep[k].depth = 1 \/ rep[k].depth < w.current_depth

\* the main thread has reported depth 1 and depth 2
C23_Witness ==
  /\ 0 \in ThreadIds
  /\ Len(workers[0].reported) = 2
  /\ workers[0].reported[2].depth = 2
  /\ workers[0].reported[2].score # workers[0].reported[1].score

C29_ReturnedFromDeepestIteration ==
  \A i \in 1..Len(results) :
    results[i].main_completed >= 1 =>
      results[i].adopted_completed >= results[i].main_completed

\* the same for the helpers whose move and score both come from calls that
\* ran to their end: the pair of a completed shallower iteration
C29_UncutHelperDeepEnough ==
  \A i \in 1..Len(results) :
    results[i].adopted # 0 /\ ~results[i].move_cut /\ ~results[i].score_cut =>
      results[i].adopted_completed >= results[i].main_completed

\* the reports of a search and what it returned
LastReport(result) == result.reported[Len(result.reported)]

\* C30: for every completed iteration the best move and the score that are
\* reported and returned together come from the same root alphabeta call:
\* the move is the one the call that returned the score left in
\* self.best_move, and the pair search returns is the pair of the last
\* report, whose principal variation begins with the returned move.
C30_MoveAndScoreOfOneCall ==
  \A i \in 1..Len(results) :
    /\ \A k \in 1..Len(results[i].reported) :
         results[i].reported[k].best_move = results[i].reported[k].call_move
    /\ results[i].reported # <<>> =>
         /\ results[i].best_move # NoneMove
         /\ LastReport(results[i]).pv = to_uci(results[i].best_move[1])
         /\ LastReport(results[i]).score = results[i].score

\* the first half alone: each report pairs the score with the move of the
\* call that returned it
C30_ReportOfOneCall ==
  \A i \in 1..Len(results) :
    \A k \in 1..Len(results[i].reported) :
      results[i].reported[k].best_move = results[i].reported[k].call_move

\* the second half when no helper's pair was adopted
C30_ReturnedIsLastReport ==
  \A i \in 1..Len(results) :
    results[i].reported # <<>> /\ results[i].adopted = 0 =>
      /\ results[i].best_move # NoneMove
      /\ LastReport(results[i]).pv = to_uci(results[i].best_move[1])
      /\ LastReport(results[i]).score = results[i].score

\* the first half in the searches of one thread
C30_ReportOfOneCallSingleThread ==
  \A i \in 1..Len(results) :
    results[i].num_threads = 1 =>
      \A k \in 1..Len(results[i].reported) :
        results[i].reported[k].best_move = results[i].reported[k].call_move

C35_WitnessThree ==
  \E t \in DOMAIN workers : workers[t].aspiration_calls = 3

====
